---- MODULE Spec2Model ----
(***************************************************************************)
(* Verification model of the message window manager                        *)
(* (agent/src/services/sentiment/message-window.ts).                       *)
(*                                                                         *)
(* Window objects live in a heap (the sequence `windows`; an index is an   *)
(* object identity), the manager's Map is the insertion-ordered sequence   *)
(* `activeWindows` of (key, reference) entries, and Date.now() is `now`.   *)
(***************************************************************************)
EXTENDS Integers, Sequences, FiniteSets, TLC

VARIABLES
    now,                \* Date.now(), in milliseconds
    windows,            \* heap of MessageWindow objects, by reference
    activeWindows,      \* Map<string, MessageWindow>, in insertion order
    processingInterval, \* the timer handle, 0 for null
    windowProcessor,    \* the registered WindowProcessor, "null" for null
    timers,             \* armed interval timers of the runtime: [id, due]
    timersCreated,      \* number of setInterval calls so far
    sweeps,             \* processReadyWindows activations suspended at await
    handed,             \* log of handler invocations: [ref, processor]
    rejected,           \* windows whose handler promise rejected
    unhandled,          \* a processReadyWindows promise has rejected
    lastLog,            \* the last warn/error line of the logger
    returned,           \* references handed out by getReadyWindows
    lastReady,          \* the result of the last getReadyWindows call
    added,              \* number of addMessage calls so far
    lastAdd,            \* chat and returned window of the last addMessage
    cleaned,            \* cleanup() has been called
    fnIn, fnOut         \* input and result of a pure function application

(* The sentiment analysis service (SentimentAnalysisService) *)
VARIABLES
    initialized,        \* this.initialized
    sentimentAnchors,   \* this.sentimentAnchors: category -> list of embeddings
    observers,          \* Set<SentimentObserver>, in insertion order
    currentStrategy,    \* this.currentStrategy
    cacheRows,          \* rows of the sentiment_cache table
    calls,              \* activations of initialize/analyzeSentiment suspended at await
    started,            \* number of initialize/analyzeSentiment calls so far
    faults,             \* number of failures of external calls so far
    finished,           \* how the last settled initialize/analyzeSentiment call ended
    notified,           \* the onSentimentUpdate calls of the last notifyObservers
    immediates,         \* callbacks scheduled with setImmediate, not yet run
    bgLog,              \* the last debug line of the background cache write
    uncaught            \* an exception or rejection reached the runtime unhandled

(* The library classes: ErrorRecovery, LRUCache, SentimentCacheService *)
VARIABLES
    recovery,           \* the activation of ErrorRecovery.attemptRecovery
    cache,              \* LRUCache.cache: Map<K, V>, in insertion order
    accessed,           \* the keys of the LRUCache by their last get or set, oldest first
    lookup              \* the last call of the SentimentCacheService and its result

vars == <<now, windows, activeWindows, processingInterval, windowProcessor,
          timers, timersCreated, sweeps, handed, rejected, unhandled, lastLog,
          returned, lastReady, added, lastAdd, cleaned, fnIn, fnOut,
          initialized, sentimentAnchors, observers, currentStrategy, cacheRows,
          calls, started, faults, finished, notified, immediates, bgLog, uncaught,
          recovery, cache, accessed, lookup>>

libVars == <<recovery, cache, accessed, lookup>>

svcVars == <<initialized, sentimentAnchors, observers, currentStrategy, cacheRows,
             calls, started, faults, finished, notified, immediates, bgLog, uncaught>>

-----------------------------------------------------------------------------
(* Program constants *)
WINDOW_SIZE_MS == 30000
MIN_MESSAGES == 2
MAX_MESSAGES == 5
PROCESSING_INTERVAL_MS == 10000

(* Bounds of the model *)
MaxAdds == 3        \* addMessage calls, public operations
MaxBuckets == 2     \* the clock reads times in buckets 0..MaxBuckets
MaxBurst == 7       \* addMessage calls of the burst scenario
MaxThree == 3       \* addMessage calls of the three-message scenario
MaxLoopAdds == 4    \* addMessage calls while the processing loop runs
MaxTimers == 1      \* setInterval calls
MaxLiveAdds == 4    \* addMessage calls while the loop runs without being stopped
MaxIdBuckets == 2   \* buckets of the timestamps given to getWindowId

Chats == {"7"}
TwoChats == {"7", "7_0"}
IdChats == {"7", "7_0", "73000"}
Texts == {"gm"}
Users == {"u1"}
Processors == {"p1", "p2"}
Offsets == {0, 1000}
FineOffsets == {0, 1000, 29000}
ClockReadings == {k * WINDOW_SIZE_MS + d : k \in 0..MaxBuckets, d \in Offsets}
BurstClock == Offsets \cup {WINDOW_SIZE_MS}
FineClock == {k * WINDOW_SIZE_MS + d : k \in 0..MaxBuckets, d \in FineOffsets}
LoopClock == {0, PROCESSING_INTERVAL_MS, WINDOW_SIZE_MS, WINDOW_SIZE_MS + PROCESSING_INTERVAL_MS}
IdTimes == {k * WINDOW_SIZE_MS + d : k \in 0..MaxIdBuckets, d \in {0, 1, 15000, 29999}}

-----------------------------------------------------------------------------
(* Map<string, MessageWindow> *)
MapHas(m, k) == \E i \in 1..Len(m) : m[i].key = k

MapGet(m, k) ==
    IF MapHas(m, k) THEN m[CHOOSE i \in 1..Len(m) : m[i].key = k].ref ELSE 0

MapSet(m, k, r) ==
    IF MapHas(m, k)
    THEN [i \in 1..Len(m) |-> IF m[i].key = k THEN [key |-> k, ref |-> r] ELSE m[i]]
    ELSE Append(m, [key |-> k, ref |-> r])

MapKeys(m) == {m[i].key : i \in 1..Len(m)}
MapRefs(m) == {m[i].ref : i \in 1..Len(m)}

-----------------------------------------------------------------------------
(* Mutant: the timestamp is not rounded down to its bucket *)
getWindowIdUnrounded(chatId, timestamp) ==
    chatId \o "_" \o ToString(timestamp)

(* Mutant: the id is the start of the bucket alone, without the chat *)
getWindowIdWithoutChat(chatId, timestamp) ==
    LET windowStartTime == timestamp - (timestamp % WINDOW_SIZE_MS)
    IN  "_" \o ToString(windowStartTime)

(* getWindowId: `${chatId}_${timestamp - (timestamp % WINDOW_SIZE_MS)}` *)
getWindowId(chatId, timestamp) ==
    LET windowStartTime == timestamp - (timestamp % WINDOW_SIZE_MS)
    IN  chatId \o "_" \o ToString(windowStartTime)

OverflowId(windowId) == windowId \o "_overflow"

NewWindow(windowId, chatId, t, msgs) ==
    [windowId |-> windowId, startTime |-> t, endTime |-> t + WINDOW_SIZE_MS,
     chatId |-> chatId, messages |-> msgs, status |-> "collecting"]

(* The entry pushed for a message: timestamp is message.timestamp || now *)
Entry(message, t) ==
    [text |-> message.text,
     timestamp |-> IF message.timestamp # 0 THEN message.timestamp ELSE t,
     userId |-> message.userId,
     messageId |-> message.messageId]

(* Mutants: the status test before the push is missing, or lets a processing
   window through *)
AcceptsEntriesAlways(window) == TRUE

AcceptsEntriesUnlessCompleted(window) == window.status # "completed"

(* addMessage: the test that sends the entry to the bucket window *)
AcceptsEntries(window) == window.status = "collecting"

(* Mutant: a message equal to one the window already holds is not pushed *)
addMessageDeduplicating(heap, map, message, t) ==
    LET windowId == getWindowId(message.chatId, t)
        found == MapGet(map, windowId)
        ref == IF found = 0 THEN Len(heap) + 1 ELSE found
        heap1 == IF found = 0
                 THEN Append(heap, NewWindow(windowId, message.chatId, t, <<>>))
                 ELSE heap
        map1 == IF found = 0 THEN MapSet(map, windowId, ref) ELSE map
        e == Entry(message, t)
        held == \E i \in 1..Len(heap1[ref].messages) :
                    /\ heap1[ref].messages[i].text = e.text
                    /\ heap1[ref].messages[i].userId = e.userId
                    /\ heap1[ref].messages[i].timestamp = e.timestamp
    IN  IF AcceptsEntries(heap1[ref])
        THEN [windows |-> IF held THEN heap1
                          ELSE [heap1 EXCEPT ![ref].messages = Append(@, e)],
              activeWindows |-> map1,
              ret |-> ref]
        ELSE [windows |-> Append(heap1, NewWindow(OverflowId(windowId), message.chatId,
                                                  t, <<e>>)),
              activeWindows |-> MapSet(map1, OverflowId(windowId), Len(heap1) + 1),
              ret |-> Len(heap1) + 1]

(* addMessage: the heap, the map and the returned reference *)
addMessage(heap, map, message, t) ==
    LET windowId == getWindowId(message.chatId, t)
        found == MapGet(map, windowId)
        ref == IF found = 0 THEN Len(heap) + 1 ELSE found
        heap1 == IF found = 0
                 THEN Append(heap, NewWindow(windowId, message.chatId, t, <<>>))
                 ELSE heap
        map1 == IF found = 0 THEN MapSet(map, windowId, ref) ELSE map
    IN  IF AcceptsEntries(heap1[ref])
        THEN [windows |-> [heap1 EXCEPT ![ref].messages = Append(@, Entry(message, t))],
              activeWindows |-> map1,
              ret |-> ref]
        ELSE [windows |-> Append(heap1, NewWindow(OverflowId(windowId), message.chatId,
                                                  t, <<Entry(message, t)>>)),
              activeWindows |-> MapSet(map1, OverflowId(windowId), Len(heap1) + 1),
              ret |-> Len(heap1) + 1]

(* Mutants: the minimum is not required once time is up; the time test is
   strict *)
IsReadyWithoutMinimum(window, t) ==
    LET isTimeUp == t >= window.endTime
        hasMaxMessages == Len(window.messages) >= MAX_MESSAGES
    IN  isTimeUp \/ hasMaxMessages

IsReadyStrictlyAfterEnd(window, t) ==
    LET isTimeUp == t > window.endTime
        hasMinMessages == Len(window.messages) >= MIN_MESSAGES
        hasMaxMessages == Len(window.messages) >= MAX_MESSAGES
    IN  (isTimeUp /\ hasMinMessages) \/ hasMaxMessages

(* getReadyWindows: the readiness test of one collecting window *)
IsReady(window, t) ==
    LET isTimeUp == t >= window.endTime
        hasMinMessages == Len(window.messages) >= MIN_MESSAGES
        hasMaxMessages == Len(window.messages) >= MAX_MESSAGES
    IN  (isTimeUp /\ hasMinMessages) \/ hasMaxMessages

RECURSIVE ReadyRefs(_, _, _)
ReadyRefs(heap, map, t) ==
    IF map = <<>> THEN <<>>
    ELSE LET window == heap[Head(map).ref]
             rest == ReadyRefs(heap, Tail(map), t)
         IN  IF window.status = "collecting" /\ IsReady(window, t)
             THEN <<Head(map).ref>> \o rest
             ELSE rest

SeqRange(s) == {s[i] : i \in 1..Len(s)}

(* Mutant: the returned windows are not marked processing *)
getReadyWindowsKeepsStatus(heap, map, t) ==
    [windows |-> heap, ready |-> ReadyRefs(heap, map, t)]

(* getReadyWindows: the map in insertion order; every ready window is marked
   processing and returned *)
getReadyWindows(heap, map, t) ==
    LET ready == ReadyRefs(heap, map, t)
    IN  [windows |-> [r \in DOMAIN heap |->
                        IF r \in SeqRange(ready)
                        THEN [heap[r] EXCEPT !.status = "processing"]
                        ELSE heap[r]],
         ready |-> ready]

(* markWindowComplete *)
markWindowComplete(heap, map, windowId) ==
    LET ref == MapGet(map, windowId)
    IN  IF ref # 0 THEN [heap EXCEPT ![ref].status = "completed"] ELSE heap

(* Mutant: a window is already removed at twice the window duration *)
IsStaleAtTwice(window, t) ==
    window.status = "completed" \/ t - window.startTime >= WINDOW_SIZE_MS * 2

(* cleanup: the test that deletes an entry *)
IsStale(window, t) ==
    window.status = "completed" \/ t - window.startTime > WINDOW_SIZE_MS * 2

RECURSIVE cleanup(_, _, _)
cleanup(heap, map, t) ==
    IF map = <<>> THEN <<>>
    ELSE IF IsStale(heap[Head(map).ref], t)
         THEN cleanup(heap, Tail(map), t)
         ELSE <<Head(map)>> \o cleanup(heap, Tail(map), t)

-----------------------------------------------------------------------------
(* Mutant: no test for a loop that is already running *)
startProcessingUnguarded(interval, processor, tms, created, p, t) ==
    [processingInterval |-> created + 1, windowProcessor |-> p,
     timers |-> tms \cup {[id |-> created + 1, due |-> t + PROCESSING_INTERVAL_MS]},
     timersCreated |-> created + 1,
     lastLog |-> "none"]

(* startProcessing(processor) at time t *)
startProcessing(interval, processor, tms, created, p, t) ==
    IF interval # 0
    THEN [processingInterval |-> interval, windowProcessor |-> processor,
          timers |-> tms, timersCreated |-> created,
          lastLog |-> "warn: Processing loop already started"]
    ELSE [processingInterval |-> created + 1, windowProcessor |-> p,
          timers |-> tms \cup {[id |-> created + 1, due |-> t + PROCESSING_INTERVAL_MS]},
          timersCreated |-> created + 1,
          lastLog |-> "none"]

(* stopProcessing *)
stopProcessing(interval, processor, tms) ==
    IF interval # 0
    THEN [processingInterval |-> 0, windowProcessor |-> "null",
          timers |-> {tm \in tms : tm.id # interval}]
    ELSE [processingInterval |-> interval, windowProcessor |-> processor, timers |-> tms]

(* Mutant: a sweep handles its first ready window only *)
ResumeAtFirstOnly(ready, i, processor) ==
    IF i > Len(ready) \/ i > 1
    THEN [done |-> TRUE, idx |-> i, errors |-> 0]
    ELSE IF processor = "null"
         THEN [done |-> TRUE, idx |-> Len(ready) + 1, errors |-> Len(ready) - i + 1]
         ELSE [done |-> FALSE, idx |-> i, errors |-> 0]

(* processReadyWindows, the for loop from position i up to its next await:
   calling this.windowProcessor when it is null throws inside the try, which
   the catch logs, for every window that is left *)
ResumeAt(ready, i, processor) ==
    IF i > Len(ready)
    THEN [done |-> TRUE, idx |-> i, errors |-> 0]
    ELSE IF processor = "null"
         THEN [done |-> TRUE, idx |-> Len(ready) + 1, errors |-> Len(ready) - i + 1]
         ELSE [done |-> FALSE, idx |-> i, errors |-> 0]

(* the awaited handler promise resolved: markWindowComplete(window.windowId),
   then the next iteration *)
AwaitResolved(heap, map, sweep) ==
    [windows |-> markWindowComplete(heap, map, heap[sweep.ready[sweep.idx]].windowId),
     next |-> sweep.idx + 1, failed |-> FALSE, logged |-> FALSE]

(* Mutants: the rejection is not caught and ends the sweep; the window is
   marked completed on rejection as well *)
UncaughtRejection(heap, map, sweep) ==
    [windows |-> heap, next |-> sweep.idx + 1, failed |-> TRUE, logged |-> FALSE]

CompleteOnRejection(heap, map, sweep) ==
    [windows |-> markWindowComplete(heap, map, heap[sweep.ready[sweep.idx]].windowId),
     next |-> sweep.idx + 1, failed |-> FALSE, logged |-> TRUE]

(* the awaited handler promise rejected: the catch block logs, then the next
   iteration *)
CatchRejection(heap, map, sweep) ==
    [windows |-> heap, next |-> sweep.idx + 1, failed |-> FALSE, logged |-> TRUE]

RemoveAt(s, k) == [i \in 1..(Len(s) - 1) |-> IF i < k THEN s[i] ELSE s[i + 1]]

-----------------------------------------------------------------------------
Messages(chats, n) ==
    {[text |-> x, userId |-> u, chatId |-> c, timestamp |-> ts, messageId |-> n] :
        x \in Texts, u \in Users, c \in chats, ts \in {0, now}}

InitManager ==
    /\ now = 0
    /\ windows = <<>>
    /\ activeWindows = <<>>
    /\ processingInterval = 0
    /\ windowProcessor = "null"
    /\ timers = {}
    /\ timersCreated = 0
    /\ sweeps = <<>>
    /\ handed = <<>>
    /\ rejected = {}
    /\ unhandled = FALSE
    /\ lastLog = "none"
    /\ returned = {}
    /\ lastReady = [called |-> FALSE, ret |-> <<>>]
    /\ added = 0
    /\ lastAdd = [chatId |-> "", ret |-> 0]
    /\ cleaned = FALSE

windowVars == <<windows, activeWindows>>
loopVars == <<processingInterval, windowProcessor, timers, timersCreated, sweeps,
              handed, rejected, unhandled, lastLog>>
fnVars == <<fnIn, fnOut>>

(* Time passes: Date.now() is read at a later instant *)
Tick(readings) ==
    \E t \in readings :
        /\ t > now
        /\ now' = t
        /\ UNCHANGED <<windows, activeWindows, returned, lastReady, added, lastAdd, cleaned>>
        /\ UNCHANGED loopVars
        /\ UNCHANGED fnVars
        /\ UNCHANGED svcVars
        /\ UNCHANGED libVars

AddMessageCall(chats, maxAdds) ==
    /\ added < maxAdds
    /\ \E message \in Messages(chats, added + 1) :
        LET r == addMessage(windows, activeWindows, message, now)
        IN  /\ windows' = r.windows
            /\ activeWindows' = r.activeWindows
            /\ lastAdd' = [chatId |-> message.chatId, ret |-> r.ret]
    /\ added' = added + 1
    /\ UNCHANGED <<now, returned, lastReady, cleaned>>
    /\ UNCHANGED loopVars
    /\ UNCHANGED fnVars
    /\ UNCHANGED svcVars
    /\ UNCHANGED libVars

GetReadyWindowsCall ==
    LET r == getReadyWindows(windows, activeWindows, now)
    IN  /\ windows' = r.windows
        /\ returned' = returned \cup SeqRange(r.ready)
        /\ lastReady' = [called |-> TRUE, ret |-> r.ready]
        /\ UNCHANGED <<now, activeWindows, added, lastAdd, cleaned>>
        /\ UNCHANGED loopVars
        /\ UNCHANGED fnVars
        /\ UNCHANGED svcVars
        /\ UNCHANGED libVars

(* markWindowComplete with any id: a key of the map or an id it does not hold *)
MarkWindowCompleteCall ==
    \E windowId \in MapKeys(activeWindows) \cup {"unknown"} :
        /\ windows' = markWindowComplete(windows, activeWindows, windowId)
        /\ UNCHANGED <<now, activeWindows, returned, lastReady, added, lastAdd, cleaned>>
        /\ UNCHANGED loopVars
        /\ UNCHANGED fnVars
        /\ UNCHANGED svcVars
        /\ UNCHANGED libVars

(* markWindowComplete as the sweep calls it: with the id of a window that
   getReadyWindows returned *)
MarkReturnedComplete ==
    \E ref \in returned :
        /\ windows[ref].status = "processing"
        /\ windows' = markWindowComplete(windows, activeWindows, windows[ref].windowId)
        /\ UNCHANGED <<now, activeWindows, returned, lastReady, added, lastAdd, cleaned>>
        /\ UNCHANGED loopVars
        /\ UNCHANGED fnVars
        /\ UNCHANGED svcVars
        /\ UNCHANGED libVars

CleanupCall ==
    /\ activeWindows' = cleanup(windows, activeWindows, now)
    /\ cleaned' = TRUE
    /\ UNCHANGED <<now, windows, returned, lastReady, added, lastAdd>>
    /\ UNCHANGED loopVars
    /\ UNCHANGED fnVars
    /\ UNCHANGED svcVars
    /\ UNCHANGED libVars

-----------------------------------------------------------------------------
apiVars == <<returned, lastReady, added, lastAdd, cleaned>>

StartProcessingOf(p) ==
    /\ processingInterval # 0 \/ timersCreated < MaxTimers
    /\ LET r == startProcessing(processingInterval, windowProcessor, timers,
                                 timersCreated, p, now)
        IN  /\ processingInterval' = r.processingInterval
            /\ windowProcessor' = r.windowProcessor
            /\ timers' = r.timers
            /\ timersCreated' = r.timersCreated
            /\ lastLog' = r.lastLog
            /\ UNCHANGED <<now, windows, activeWindows, sweeps, handed, rejected, unhandled>>
            /\ UNCHANGED apiVars
            /\ UNCHANGED fnVars
            /\ UNCHANGED svcVars
            /\ UNCHANGED libVars

StartProcessing == \E p \in Processors : StartProcessingOf(p)

StopProcessing ==
    LET r == stopProcessing(processingInterval, windowProcessor, timers)
    IN  /\ processingInterval' = r.processingInterval
        /\ windowProcessor' = r.windowProcessor
        /\ timers' = r.timers
        /\ UNCHANGED <<now, windows, activeWindows, timersCreated, sweeps, handed,
                       rejected, unhandled, lastLog>>
        /\ UNCHANGED apiVars
        /\ UNCHANGED fnVars
        /\ UNCHANGED svcVars
        /\ UNCHANGED libVars

(* The effect of the loop running from position `from` of sweep `sw` (a new
   sweep when k = 0) up to its next await or its end *)
RunLoop(k, sw, from, failed, logged) ==
    LET r == ResumeAt(sw.ready, from, windowProcessor)
        ends == failed \/ r.done
        susp == [ready |-> sw.ready, idx |-> r.idx]
    IN  /\ sweeps' = IF ends
                     THEN (IF k = 0 THEN sweeps ELSE RemoveAt(sweeps, k))
                     ELSE (IF k = 0 THEN Append(sweeps, susp)
                                    ELSE [sweeps EXCEPT ![k] = susp])
        /\ handed' = IF ends THEN handed
                     ELSE Append(handed, [ref |-> sw.ready[r.idx],
                                          processor |-> windowProcessor])
        /\ unhandled' = (unhandled \/ failed)
        /\ lastLog' = IF logged \/ (~failed /\ r.errors > 0)
                      THEN "error: Error processing window"
                      ELSE lastLog

(* An armed timer fires: processReadyWindows() up to its first await *)
TimerFire ==
    \E tm \in timers :
        /\ now >= tm.due
        /\ timers' = (timers \ {tm}) \cup {[id |-> tm.id, due |-> now + PROCESSING_INTERVAL_MS]}
        /\ IF windowProcessor = "null"
           THEN UNCHANGED <<windows, sweeps, handed, unhandled, lastLog, returned, lastReady>>
           ELSE LET r == getReadyWindows(windows, activeWindows, now)
                IN  /\ windows' = r.windows
                    /\ returned' = returned \cup SeqRange(r.ready)
                    /\ lastReady' = [called |-> TRUE, ret |-> r.ready]
                    /\ RunLoop(0, [ready |-> r.ready, idx |-> 0], 1, FALSE, FALSE)
        /\ UNCHANGED <<now, activeWindows, processingInterval, windowProcessor,
                       timersCreated, rejected, added, lastAdd, cleaned>>
        /\ UNCHANGED fnVars
        /\ UNCHANGED svcVars
        /\ UNCHANGED libVars

(* The handler promise a sweep awaits resolves *)
HandlerResolveOf(k) ==
        LET r == AwaitResolved(windows, activeWindows, sweeps[k])
        IN  /\ windows' = r.windows
            /\ RunLoop(k, sweeps[k], r.next, r.failed, r.logged)
            /\ UNCHANGED <<now, activeWindows, processingInterval, windowProcessor,
                           timers, timersCreated, rejected>>
            /\ UNCHANGED apiVars
            /\ UNCHANGED fnVars
            /\ UNCHANGED svcVars
            /\ UNCHANGED libVars

HandlerResolve == \E k \in 1..Len(sweeps) : HandlerResolveOf(k)

(* The handler promise a sweep awaits rejects *)
HandlerRejectOf(k) ==
        LET r == CatchRejection(windows, activeWindows, sweeps[k])
        IN  /\ windows' = r.windows
            /\ rejected' = rejected \cup {sweeps[k].ready[sweeps[k].idx]}
            /\ RunLoop(k, sweeps[k], r.next, r.failed, r.logged)
            /\ UNCHANGED <<now, activeWindows, processingInterval, windowProcessor,
                           timers, timersCreated>>
            /\ UNCHANGED apiVars
            /\ UNCHANGED fnVars
            /\ UNCHANGED svcVars
            /\ UNCHANGED libVars

HandlerReject == \E k \in 1..Len(sweeps) : HandlerRejectOf(k)

(* getWindowId applied to two (chatId, timestamp) pairs *)
ApplyGetWindowId ==
    /\ fnIn # <<>>
    /\ fnOut = <<>>
    /\ fnOut' = [a |-> getWindowId(fnIn.chatA, fnIn.t1),
                 b |-> getWindowId(fnIn.chatB, fnIn.t2)]
    /\ UNCHANGED <<now, windows, activeWindows, returned, lastReady, added, lastAdd, cleaned, fnIn>>
    /\ UNCHANGED loopVars
    /\ UNCHANGED svcVars
    /\ UNCHANGED libVars

-----------------------------------------------------------------------------
(* The sentiment analysis service (SentimentAnalysisService, ErrorRecovery,
   SentimentCacheService).  Every await of an external call (embedding
   provider, scoring strategy, vector store) is a suspension point; the
   environment settles the awaited promise.  Embeddings, scores and query
   results are symbolic values that name what produced them. *)

(* Retry policies of the error kinds *)
InitMaxAttempts == 3
EmbeddingMaxAttempts == 5
VectorMaxAttempts == 3
CACHE_TTL_MS == 86400000

(* Bounds of the service scenarios *)
MaxAnalyses == 2       \* initialize/analyzeSentiment calls of the analysis scenario
MaxFaults == 2         \* failures of external calls in the analysis scenario
MaxObserved == 2       \* analyzeSentiment calls of the observer scenario
MaxInits == 3          \* initialize calls of the initialization scenario
MaxInitFaults == 24    \* failures of the embedding provider while initializing
MaxFailAnalyses == 1   \* analyzeSentiment calls of the failure scenario
MaxFailFaults == 7     \* failures of external calls in the failure scenario
MaxCleanupCalls == 4   \* initialize/cleanup calls of the cleanup scenario
MaxCleanupFaults == 2  \* failures of external calls in the cleanup scenario

Categories == <<"bullish", "bearish", "neutral">>
AnchorWords == <<"amazing", "terrible", "okay">>
AnalyzedTexts == {"gm", "rip"}
Strategies == {"s1", "s2"}
Observers == {"o1", "o2", "bad"}
ThrowingObservers == {"bad"}
WriteOutcomes == {"stored", "rejects", "throws"}

Undefined == "undefined"
Emb(text) == "emb:" \o text
Matches(embedding) == "matches:" \o embedding
hashMessage(text) == "sha256:" \o text

(* new Float32Array(x): an empty array when x is undefined *)
Float32ArrayOf(x) == IF x = Undefined THEN "f32[]" ELSE x

(* The SentimentScore a strategy's analyze(text, embedding) produces *)
Score(strategy, text, embedding) ==
    [by |-> strategy, text |-> text, embedding |-> embedding]

NoScore == [by |-> "none", text |-> "", embedding |-> ""]
NoResult == [score |-> NoScore, context |-> "none"]

(* The context computed from similar.matches and the score's category *)
Context(similar, score) == "context:" \o similar

(* attemptRecovery's result carries no `result` in its metadata, so
   recovery.metadata?.result is undefined *)
RecoveryResult == Undefined

(* A value held by SQLite, with its storage class *)
SqlValue(class, v) == [class |-> class, v |-> v]

(* A JavaScript value bound to a column of the sentiment_cache table: the
   strings of the TEXT columns are stored as text, the numbers of the REAL
   and INTEGER columns as numbers *)
Stored(affinity, v) ==
    CASE affinity = "TEXT" -> SqlValue("text", v)
      [] affinity = "REAL" -> SqlValue("real", v)
      [] affinity = "INTEGER" -> SqlValue("integer", v)

(* datetime('now'): the text 'YYYY-MM-DD HH:MM:SS' of the time t *)
datetimeNow(t) == SqlValue("text", t)

Numeric(x) == x.class \in {"integer", "real"}

(* The comparison a > b of SQLite: numbers compare by value, texts by their
   characters, and a number is less than any text; the text of datetime()
   is not a numeric literal, so no affinity turns it into a number *)
SqlGreater(a, b) ==
    IF Numeric(a) = Numeric(b) THEN a.v > b.v ELSE ~Numeric(a)

(* The result of a lookup is a sequence: empty for null, else the entry *)
Null == <<>>

(* The rows of a message's hash *)
RowsOf(rows, message) ==
    SelectSeq(rows, LAMBDA row : row.messageHash = hashMessage(message))

(* SentimentCacheService.getCachedSentiment: SELECT of the row of the hash
   WHERE expiresAt > datetime('now'); null when there is none *)
getCachedSentiment(rows, message, t) ==
    LET hits == SelectSeq(RowsOf(rows, message),
                          LAMBDA row : SqlGreater(row.expiresAt, datetimeNow(t)))
    IN  IF hits = <<>> THEN Null
        ELSE <<[messageHash |-> hits[1].messageHash, sentiment |-> hits[1].sentiment.v,
                confidence |-> hits[1].confidence.v, context |-> hits[1].context,
                userId |-> hits[1].userId, roomId |-> hits[1].roomId]>>

(* The row cacheSentiment inserts for data at time t *)
CacheRow(data, t) ==
    [messageHash |-> data.messageHash,
     sentiment |-> Stored("TEXT", data.sentiment),
     confidence |-> Stored("REAL", data.confidence),
     context |-> data.context, userId |-> data.userId, roomId |-> data.roomId,
     expiresAt |-> Stored("INTEGER", t + CACHE_TTL_MS),
     createdAt |-> Stored("INTEGER", t)]

(* Mutant: the table has no primary key *)
cacheSentimentWithoutKey(rows, data, t) ==
    [rows |-> Append(rows, CacheRow(data, t)), threw |-> FALSE]

(* SentimentCacheService.cacheSentiment: INSERT of the entry; messageHash is
   the PRIMARY KEY, so the INSERT of a hash already in the table fails and
   the error is logged and thrown again *)
cacheSentiment(rows, data, t) ==
    IF \E i \in 1..Len(rows) : rows[i].messageHash = data.messageHash
    THEN [rows |-> rows, threw |-> TRUE]
    ELSE [rows |-> Append(rows, CacheRow(data, t)), threw |-> FALSE]

(* An activation of initialize() or analyzeSentiment(text) *)
NewCall(id, op, text, cachedRows) ==
    [id |-> id, op |-> op, text |-> text, cached |-> cachedRows # <<>>,
     pc |-> "start", run |-> 0, cat |-> 0, attempt |-> 0,
     embedding |-> "none", strategy |-> "none", score |-> NoScore,
     embedCalls |-> 0, vectorCalls |-> 0, strategyCalls |-> 0]

(* How an activation stands after running up to its next await or its end *)
Awaiting(a, svc) ==
    [kind |-> "await", a |-> a, svc |-> svc, error |-> "none", cause |-> "none",
     result |-> NoResult, writes |-> <<>>, ran |-> FALSE, notified |-> <<>>]

Resolved(a, svc, result, writes, ran, notifications) ==
    [kind |-> "resolved", a |-> a, svc |-> svc, error |-> "none", cause |-> "none",
     result |-> result, writes |-> writes, ran |-> ran, notified |-> notifications]

Rejected(a, svc, error, cause, writes, ran, notifications) ==
    [kind |-> "rejected", a |-> a, svc |-> svc, error |-> error, cause |-> cause,
     result |-> NoResult, writes |-> writes, ran |-> ran, notified |-> notifications]

(* generateEmbeddingWithRetry(text): the first call to the embedding provider *)
StartEmbedding(a, svc) ==
    Awaiting([a EXCEPT !.pc = "embed", !.attempt = 0, !.embedCalls = @ + 1], svc)

(* initializeSentimentAnchors(): the first category's Promise.all, which
   calls the embedding provider for its word *)
StartAnchors(a, svc, run) ==
    Awaiting([a EXCEPT !.pc = "anchors", !.run = run, !.cat = 1, !.attempt = 0,
                       !.embedCalls = @ + 1], svc)

(* initialize() returned: the caller of initialize() resumes *)
AfterInitialize(a, svc) ==
    IF a.op = "initialize"
    THEN Resolved(a, svc, NoResult, <<>>, FALSE, <<>>)
    ELSE StartEmbedding(a, svc)

(* initialize() threw initError: analyzeSentiment wraps it *)
InitializeRejected(a, svc) ==
    IF a.op = "initialize"
    THEN Rejected(a, svc, "InitializationError", "InitializationError", <<>>, FALSE, <<>>)
    ELSE Rejected(a, svc, "AnalysisError", "InitializationError", <<>>, FALSE, <<>>)

(* Mutant: no test of this.initialized *)
initializeUnguarded(a, svc) == StartAnchors(a, svc, 0)

(* initialize(), up to its first await *)
initialize(a, svc) ==
    IF svc.initialized THEN AfterInitialize(a, svc) ELSE StartAnchors(a, svc, 0)

(* analyzeSentiment(text, context), up to its first await *)
analyzeSentiment(a, svc) ==
    IF ~svc.initialized THEN initialize(a, svc) ELSE StartEmbedding(a, svc)

(* initializeSentimentAnchors() resolved: directly under initialize()
   (run 0), which then sets this.initialized, or as the operation of
   attemptRecovery, after which initialize() returns *)
AnchorsComplete(a, svc) ==
    IF a.run = 0
    THEN AfterInitialize(a, [svc EXCEPT !.initialized = TRUE])
    ELSE AfterInitialize(a, svc)

(* Mutant: an exhausted recovery of initialize() is swallowed *)
AnchorsFailedSwallowed(a, svc) ==
    IF a.run < InitMaxAttempts
    THEN StartAnchors(a, svc, a.run + 1)
    ELSE AfterInitialize(a, svc)

(* initializeSentimentAnchors() threw: initialize() starts attemptRecovery on
   the first failure, attemptRecovery retries while attempts are left, and
   initialize() throws initError when recovery reports no success *)
AnchorsFailed(a, svc) ==
    IF a.run < InitMaxAttempts
    THEN StartAnchors(a, svc, a.run + 1)
    ELSE InitializeRejected(a, svc)

(* The embedding call awaited for the anchor word of category a.cat settled *)
AnchorsSettled(a, svc, ok) ==
    IF ok
    THEN LET value == IF a.attempt = 0 THEN Emb(AnchorWords[a.cat]) ELSE RecoveryResult
             svc1 == [svc EXCEPT !.sentimentAnchors[Categories[a.cat]] =
                                        <<Float32ArrayOf(value)>>]
         IN  IF a.cat < Len(Categories)
             THEN Awaiting([a EXCEPT !.cat = @ + 1, !.attempt = 0,
                                     !.embedCalls = @ + 1], svc1)
             ELSE AnchorsComplete(a, svc1)
    ELSE IF a.attempt < EmbeddingMaxAttempts
         THEN Awaiting([a EXCEPT !.attempt = @ + 1, !.embedCalls = @ + 1], svc)
         ELSE AnchorsFailed(a, svc)

(* Mutant: the score always comes from the default engine *)
EmbedSettledDefaultEngine(a, svc, ok, strategy) ==
    IF ok
    THEN LET value == IF a.attempt = 0 THEN Emb(a.text) ELSE RecoveryResult
         IN  Awaiting([a EXCEPT !.pc = "strategy", !.embedding = value,
                                !.strategy = "default", !.strategyCalls = @ + 1], svc)
    ELSE IF a.attempt < EmbeddingMaxAttempts
         THEN Awaiting([a EXCEPT !.attempt = @ + 1, !.embedCalls = @ + 1], svc)
         ELSE Rejected(a, svc, "AnalysisError", "EmbeddingError", <<>>, FALSE, <<>>)

(* The embedding call awaited for the analyzed text settled; on success the
   current strategy's analyze(text, embedding) is called *)
EmbedSettled(a, svc, ok, strategy) ==
    IF ok
    THEN LET value == IF a.attempt = 0 THEN Emb(a.text) ELSE RecoveryResult
         IN  Awaiting([a EXCEPT !.pc = "strategy", !.embedding = value,
                                !.strategy = strategy, !.strategyCalls = @ + 1], svc)
    ELSE IF a.attempt < EmbeddingMaxAttempts
         THEN Awaiting([a EXCEPT !.attempt = @ + 1, !.embedCalls = @ + 1], svc)
         ELSE Rejected(a, svc, "AnalysisError", "EmbeddingError", <<>>, FALSE, <<>>)

(* The strategy's promise settled; Array.from(embedding) throws a TypeError
   when the embedding is undefined, otherwise the vector store is queried *)
StrategySettled(a, svc, ok) ==
    IF ~ok
    THEN Rejected(a, svc, "AnalysisError", "StrategyError", <<>>, FALSE, <<>>)
    ELSE LET a1 == [a EXCEPT !.score = Score(a.strategy, a.text, a.embedding)]
         IN  IF a.embedding = Undefined
             THEN Rejected(a1, svc, "AnalysisError", "TypeError", <<>>, FALSE, <<>>)
             ELSE Awaiting([a1 EXCEPT !.pc = "vector", !.attempt = 0,
                                      !.vectorCalls = @ + 1], svc)

(* Mutants: only the first observer is notified; a throwing observer is
   skipped *)
notifyObserversFirstOnly(obs) ==
    IF obs = <<>> THEN [called |-> <<>>, threw |-> FALSE]
    ELSE [called |-> <<Head(obs)>>, threw |-> Head(obs) \in ThrowingObservers]

(* notifyObservers: observers.forEach(o => o.onSentimentUpdate(result)), in
   insertion order, ended by the first observer that throws *)
RECURSIVE notifyObservers(_)
notifyObservers(obs) ==
    IF obs = <<>> THEN [called |-> <<>>, threw |-> FALSE]
    ELSE IF Head(obs) \in ThrowingObservers
         THEN [called |-> <<Head(obs)>>, threw |-> TRUE]
         ELSE LET rest == notifyObservers(Tail(obs))
              IN  [called |-> <<Head(obs)>> \o rest.called, threw |-> rest.threw]

(* cacheData of analyzeSentiment *)
CacheData(a, result) ==
    [messageHash |-> hashMessage(a.text), sentiment |-> result.score,
     confidence |-> result.score, context |-> result.context,
     userId |-> "context.userId", roomId |-> "context.roomId"]

(* analyzeSentiment after the vector query: the cache write is scheduled with
   setImmediate, the result is built, the observers are notified, and the
   result is returned; an exception of an observer reaches the catch block *)
Finish(a, svc, similar, obs) ==
    LET result == [score |-> a.score, context |-> Context(similar, a.score)]
        n == notifyObservers(obs)
        notifications == [i \in 1..Len(n.called) |->
                            [observer |-> n.called[i], result |-> result]]
    IN  IF n.threw
        THEN Rejected(a, svc, "AnalysisError", "ObserverError",
                      <<CacheData(a, result)>>, TRUE, notifications)
        ELSE Resolved(a, svc, result, <<CacheData(a, result)>>, TRUE, notifications)

(* Mutant: when the vector store stays down the score is returned without
   its context *)
VectorSettledDegraded(a, svc, ok, obs) ==
    IF ok
    THEN LET similar == IF a.attempt = 0 THEN Matches(a.embedding) ELSE RecoveryResult
         IN  IF similar = Undefined
             THEN Rejected(a, svc, "AnalysisError", "TypeError", <<>>, FALSE, <<>>)
             ELSE Finish(a, svc, similar, obs)
    ELSE IF a.attempt < VectorMaxAttempts
         THEN Awaiting([a EXCEPT !.attempt = @ + 1, !.vectorCalls = @ + 1], svc)
         ELSE Resolved(a, svc, [score |-> a.score, context |-> "none"], <<>>, FALSE, <<>>)

(* The vector store query awaited settled *)
VectorSettled(a, svc, ok, obs) ==
    IF ok
    THEN LET similar == IF a.attempt = 0 THEN Matches(a.embedding) ELSE RecoveryResult
         IN  IF similar = Undefined
             THEN Rejected(a, svc, "AnalysisError", "TypeError", <<>>, FALSE, <<>>)
             ELSE Finish(a, svc, similar, obs)
    ELSE IF a.attempt < VectorMaxAttempts
         THEN Awaiting([a EXCEPT !.attempt = @ + 1, !.vectorCalls = @ + 1], svc)
         ELSE Rejected(a, svc, "AnalysisError", "VectorStoreError", <<>>, FALSE, <<>>)

(* SentimentCacheService.cleanup: DELETE of the rows WHERE
   expiresAt <= datetime("now"); the rows it leaves *)
cacheCleanup(rows, t) ==
    SelectSeq(rows, LAMBDA row : SqlGreater(row.expiresAt, datetimeNow(t)))

(* cleanup() of the service, up to its await: the anchors are emptied and
   cacheService.cleanup() is called, which runs the DELETE before it returns
   its promise; ok tells whether the statement ran or threw *)
serviceCleanup(a, svc, ok) ==
    Awaiting([a EXCEPT !.pc = IF ok THEN "cleanupResolved" ELSE "cleanupRejected"],
             [svc EXCEPT !.sentimentAnchors = [c \in DOMAIN @ |-> <<>>]])

(* cleanup() after its await: this.initialized = false, or the catch block
   that throws the AnalysisError *)
CleanupSettled(a, svc, ok) ==
    IF ok
    THEN Resolved(a, [svc EXCEPT !.initialized = FALSE], NoResult, <<>>, FALSE, <<>>)
    ELSE Rejected(a, svc, "AnalysisError", "CacheCleanupError", <<>>, FALSE, <<>>)

(* The promise activation a awaits settles; the promise of
   cacheService.cleanup() is settled when it is awaited *)
Settled(a, svc, ok, strategy, obs) ==
    CASE a.pc = "anchors" -> AnchorsSettled(a, svc, ok)
      [] a.pc = "embed" -> EmbedSettled(a, svc, ok, strategy)
      [] a.pc = "strategy" -> StrategySettled(a, svc, ok)
      [] a.pc = "vector" -> VectorSettled(a, svc, ok, obs)
      [] a.pc = "cleanupResolved" -> CleanupSettled(a, svc, TRUE)
      [] a.pc = "cleanupRejected" -> CleanupSettled(a, svc, FALSE)

(* The default strategy makes no external call and catches its own errors;
   a cleanup awaits no call that is still open *)
CanFail(a) ==
    /\ a.pc = "strategy" => a.strategy # "default"
    /\ a.pc \notin {"cleanupResolved", "cleanupRejected"}

(* Mutant: the rejection of the write has no catch handler *)
BackgroundWriteUnhandled(rows, data, outcome, t, log) ==
    CASE outcome = "stored" ->
            [cacheRows |-> cacheSentiment(rows, data, t).rows, bgLog |-> log,
             uncaught |-> cacheSentiment(rows, data, t).threw]
      [] outcome = "rejects" ->
            [cacheRows |-> rows, bgLog |-> log, uncaught |-> TRUE]
      [] outcome = "throws" ->
            [cacheRows |-> rows,
             bgLog |-> "debug: Error preparing cache data (expected)",
             uncaught |-> FALSE]

(* The setImmediate callback: cacheSentiment(cacheData) with a catch handler
   on its promise, inside a try block *)
BackgroundWrite(rows, data, outcome, t, log) ==
    CASE outcome = "stored" ->
            [cacheRows |-> cacheSentiment(rows, data, t).rows,
             bgLog |-> IF cacheSentiment(rows, data, t).threw
                       THEN "debug: Background cache operation failed (expected)"
                       ELSE log,
             uncaught |-> FALSE]
      [] outcome = "rejects" ->
            [cacheRows |-> rows,
             bgLog |-> "debug: Background cache operation failed (expected)",
             uncaught |-> FALSE]
      [] outcome = "throws" ->
            [cacheRows |-> rows,
             bgLog |-> "debug: Error preparing cache data (expected)",
             uncaught |-> FALSE]

-----------------------------------------------------------------------------
managerVars == <<now, windows, activeWindows, returned, lastReady, added, lastAdd,
                 cleaned, processingInterval, windowProcessor, timers, timersCreated,
                 sweeps, handed, rejected, unhandled, lastLog, fnIn, fnOut>>

NoAnchors == [c \in SeqRange(Categories) |-> <<>>]

NotFinished ==
    [id |-> 0, op |-> "none", text |-> "", kind |-> "none", error |-> "none",
     cause |-> "none", result |-> NoResult, cached |-> FALSE, strategy |-> "none",
     embedCalls |-> 0, vectorCalls |-> 0, strategyCalls |-> 0]

(* The service after construction; strategy is the constructor's argument,
   "default" when none is passed *)
InitService(strategies) ==
    /\ initialized = FALSE
    /\ sentimentAnchors = NoAnchors
    /\ observers = <<>>
    /\ currentStrategy \in strategies
    /\ cacheRows = <<>>
    /\ calls = <<>>
    /\ started = 0
    /\ faults = 0
    /\ finished = NotFinished
    /\ notified = <<>>
    /\ immediates = <<>>
    /\ bgLog = "none"
    /\ uncaught = FALSE

Svc == [initialized |-> initialized, sentimentAnchors |-> sentimentAnchors]

(* How a settled call ended, as its caller sees it *)
Outcome(r) ==
    [id |-> r.a.id, op |-> r.a.op, text |-> r.a.text, kind |-> r.kind,
     error |-> r.error, cause |-> r.cause, result |-> r.result,
     cached |-> r.a.cached, strategy |-> r.a.strategy,
     embedCalls |-> r.a.embedCalls, vectorCalls |-> r.a.vectorCalls,
     strategyCalls |-> r.a.strategyCalls]

(* The effect of activation k (a new one when k = 0) having run up to its
   next await or its end *)
ApplyStep(k, r) ==
    /\ calls' = IF r.kind = "await"
                THEN (IF k = 0 THEN Append(calls, r.a) ELSE [calls EXCEPT ![k] = r.a])
                ELSE (IF k = 0 THEN calls ELSE RemoveAt(calls, k))
    /\ initialized' = r.svc.initialized
    /\ sentimentAnchors' = r.svc.sentimentAnchors
    /\ finished' = IF r.kind = "await" THEN finished ELSE Outcome(r)
    /\ notified' = IF r.ran THEN r.notified ELSE notified
    /\ immediates' = immediates \o r.writes

AnalyzeSentimentOf(text, maxCalls, maxPending) ==
    /\ started < maxCalls
    /\ Len(calls) < maxPending
    /\ ApplyStep(0, analyzeSentiment(
            NewCall(started + 1, "analyze", text,
                    SelectSeq(RowsOf(cacheRows, text),
                              LAMBDA row : now < row.expiresAt.v)), Svc))
    /\ started' = started + 1
    /\ UNCHANGED <<observers, currentStrategy, cacheRows, faults, bgLog, uncaught>>
    /\ UNCHANGED managerVars
    /\ UNCHANGED libVars

AnalyzeSentimentCall(texts, maxCalls, maxPending) ==
    \E text \in texts : AnalyzeSentimentOf(text, maxCalls, maxPending)

InitializeCall(maxCalls, maxPending) ==
    /\ started < maxCalls
    /\ Len(calls) < maxPending
    /\ ApplyStep(0, initialize(NewCall(started + 1, "initialize", "", <<>>), Svc))
    /\ started' = started + 1
    /\ UNCHANGED <<observers, currentStrategy, cacheRows, faults, bgLog, uncaught>>
    /\ UNCHANGED managerVars
    /\ UNCHANGED libVars

(* The external call an activation awaits resolves *)
ProviderResolvesFor(k) ==
    /\ ApplyStep(k, Settled(calls[k], Svc, TRUE, currentStrategy, observers))
    /\ UNCHANGED <<observers, currentStrategy, cacheRows, started, faults, bgLog, uncaught>>
    /\ UNCHANGED managerVars
    /\ UNCHANGED libVars

ProviderResolves == \E k \in 1..Len(calls) : ProviderResolvesFor(k)

(* The external call an activation awaits rejects *)
ProviderRejectsFor(k, maxFaults) ==
    /\ faults < maxFaults
    /\ CanFail(calls[k])
    /\ ApplyStep(k, Settled(calls[k], Svc, FALSE, currentStrategy, observers))
    /\ faults' = faults + 1
    /\ UNCHANGED <<observers, currentStrategy, cacheRows, started, bgLog, uncaught>>
    /\ UNCHANGED managerVars
    /\ UNCHANGED libVars

ProviderRejects(maxFaults) == \E k \in 1..Len(calls) : ProviderRejectsFor(k, maxFaults)

AddObserver ==
    \E o \in Observers :
        /\ observers' = IF o \in SeqRange(observers) THEN observers ELSE Append(observers, o)
        /\ UNCHANGED <<initialized, sentimentAnchors, currentStrategy, cacheRows, calls,
                       started, faults, finished, notified, immediates, bgLog, uncaught>>
        /\ UNCHANGED managerVars
        /\ UNCHANGED libVars

RemoveObserver ==
    \E o \in Observers :
        /\ observers' = SelectSeq(observers, LAMBDA x : x # o)
        /\ UNCHANGED <<initialized, sentimentAnchors, currentStrategy, cacheRows, calls,
                       started, faults, finished, notified, immediates, bgLog, uncaught>>
        /\ UNCHANGED managerVars
        /\ UNCHANGED libVars

SetStrategy ==
    \E s \in Strategies :
        /\ currentStrategy' = s
        /\ UNCHANGED <<initialized, sentimentAnchors, observers, cacheRows, calls,
                       started, faults, finished, notified, immediates, bgLog, uncaught>>
        /\ UNCHANGED managerVars
        /\ UNCHANGED libVars

(* The runtime runs the oldest setImmediate callback *)
RunImmediate ==
    /\ immediates # <<>>
    /\ \E outcome \in WriteOutcomes :
        LET r == BackgroundWrite(cacheRows, Head(immediates), outcome, now, bgLog)
        IN  /\ cacheRows' = r.cacheRows
            /\ bgLog' = r.bgLog
            /\ uncaught' = (uncaught \/ r.uncaught)
    /\ immediates' = Tail(immediates)
    /\ UNCHANGED <<initialized, sentimentAnchors, observers, currentStrategy, calls,
                   started, faults, finished, notified>>
    /\ UNCHANGED managerVars
    /\ UNCHANGED libVars

(* cleanup() of the service is called: the observers, the reference
   embeddings and the anchors are cleared and the cache cleanup is run *)
ServiceCleanupCall(maxCalls, maxPending, maxFaults) ==
    /\ started < maxCalls
    /\ Len(calls) < maxPending
    /\ \E ok \in BOOLEAN :
        /\ ok \/ faults < maxFaults
        /\ ApplyStep(0, serviceCleanup(NewCall(started + 1, "cleanup", "", <<>>), Svc, ok))
        /\ cacheRows' = IF ok THEN cacheCleanup(cacheRows, now) ELSE cacheRows
        /\ faults' = IF ok THEN faults ELSE faults + 1
    /\ observers' = <<>>
    /\ cache' = <<>>
    /\ accessed' = <<>>
    /\ started' = started + 1
    /\ UNCHANGED <<currentStrategy, bgLog, uncaught, recovery, lookup>>
    /\ UNCHANGED managerVars

-----------------------------------------------------------------------------
(* ErrorRecovery (agent/src/services/sentiment/error-recovery): the retry
   loop of attemptRecovery, suspended at its two awaits. *)

(* Retry policies of the remaining error kinds, and the backoffs *)
CacheMaxAttempts == 2
AnalysisMaxAttempts == 3
RateLimitMaxAttempts == 1
InitBackoffMs == 1000
EmbeddingBackoffMs == 500
VectorBackoffMs == 1000
CacheBackoffMs == 200
AnalysisBackoffMs == 500

(* Bounds of the recovery scenario *)
MaxRecoveries == 2     \* attemptRecovery calls
MaxRetryAfter == 2     \* retryAfterMs of a RateLimitError, in seconds

(* SentimentError and its subclasses: shouldRetry and retryOptions *)
SentimentError(name, retryable, maxAttempts, backoffMs) ==
    [name |-> name, shouldRetry |-> retryable /\ maxAttempts # 0,
     maxAttempts |-> maxAttempts, backoffMs |-> backoffMs]

SentimentErrors ==
    { SentimentError("InitializationError", TRUE, InitMaxAttempts, InitBackoffMs),
      SentimentError("EmbeddingError", TRUE, EmbeddingMaxAttempts, EmbeddingBackoffMs),
      SentimentError("VectorStoreError", TRUE, VectorMaxAttempts, VectorBackoffMs),
      SentimentError("CacheError", TRUE, CacheMaxAttempts, CacheBackoffMs),
      SentimentError("AnalysisError", TRUE, AnalysisMaxAttempts, AnalysisBackoffMs) }
    \cup { SentimentError("RateLimitError", TRUE, RateLimitMaxAttempts, 1000 * s) :
             s \in 1..MaxRetryAfter }

NoSentimentError == SentimentError("none", FALSE, 0, 0)

(* The error the k-th invocation of the operation rejects with *)
RetryError(k) == [name |-> "retryError", of |-> k]

RECURSIVE Pow2(_)
Pow2(n) == IF n = 0 THEN 1 ELSE 2 * Pow2(n - 1)

(* Mutant: the delay grows linearly *)
BackoffLinear(error, currentAttempt) == error.backoffMs * currentAttempt

(* options.backoffMs * Math.pow(2, currentAttempt - 1) *)
Backoff(error, currentAttempt) == error.backoffMs * Pow2(currentAttempt - 1)

NoRecoveryResult ==
    [success |-> FALSE, error |-> "none", status |-> "none", attempts |-> 0]

IdleRecovery ==
    [pc |-> "idle", n |-> 0, error |-> NoSentimentError, currentAttempt |-> 0,
     trace |-> <<>>, result |-> NoRecoveryResult]

Event(ev, arg) == [ev |-> ev, arg |-> arg]

(* return { success, error, metadata: createErrorMetadata(error, status, {attempts}) } *)
RecoveryReturns(r, success, error, status, attempts) ==
    [r EXCEPT !.pc = "done",
              !.result = [success |-> success, error |-> error, status |-> status,
                          attempts |-> attempts]]

(* The head of the while loop: with attempts left, the backoff is computed
   and sleep(backoff) is awaited *)
RecoveryLoop(r) ==
    IF r.currentAttempt <= r.error.maxAttempts
    THEN [r EXCEPT !.pc = "sleep",
                   !.trace = Append(@, Event("sleep", Backoff(r.error, r.currentAttempt)))]
    ELSE RecoveryReturns(r, FALSE, r.error, "unknown", 0)

(* attemptRecovery(error, operation), up to its first await *)
attemptRecovery(r, error) ==
    LET r1 == [r EXCEPT !.n = @ + 1, !.error = error, !.currentAttempt = 1,
                        !.trace = <<>>, !.result = NoRecoveryResult]
    IN  IF ~error.shouldRetry
        THEN RecoveryReturns(r1, FALSE, error, "no_retry", 0)
        ELSE RecoveryLoop(r1)

(* sleep(backoff) resolved: operation() is invoked and awaited *)
sleep(r) ==
    [r EXCEPT !.pc = "operation", !.trace = Append(@, Event("operation", r.currentAttempt))]

(* operation() resolved *)
OperationResolved(r) ==
    RecoveryReturns([r EXCEPT !.trace = Append(@, Event("resolved", r.currentAttempt))],
                    TRUE, "none", "recovered", r.currentAttempt)

(* Mutant: an exhausted recovery reports the error it was called with *)
OperationRejectedOriginalError(r, retryError) ==
    LET r1 == [r EXCEPT !.currentAttempt = @ + 1,
                        !.trace = Append(@, Event("rejected", r.currentAttempt))]
    IN  IF r1.currentAttempt > r1.error.maxAttempts
        THEN RecoveryReturns(r1, FALSE, r1.error, "max_attempts", r1.currentAttempt)
        ELSE RecoveryLoop(r1)

(* operation() rejected with retryError: the catch block *)
OperationRejected(r, retryError) ==
    LET r1 == [r EXCEPT !.currentAttempt = @ + 1,
                        !.trace = Append(@, Event("rejected", r.currentAttempt))]
    IN  IF r1.currentAttempt > r1.error.maxAttempts
        THEN RecoveryReturns(r1, FALSE, retryError, "max_attempts", r1.currentAttempt)
        ELSE RecoveryLoop(r1)

(* The frames of the library scenarios *)
managerRest == <<windows, activeWindows, returned, lastReady, added, lastAdd,
                 cleaned, processingInterval, windowProcessor, timers, timersCreated,
                 sweeps, handed, rejected, unhandled, lastLog>>

svcRest == <<initialized, sentimentAnchors, observers, currentStrategy,
             calls, started, faults, finished, notified, immediates, bgLog, uncaught>>

(* attemptRecovery(error, operation) is called *)
AttemptRecoveryCall ==
    /\ recovery.pc \in {"idle", "done"}
    /\ recovery.n < MaxRecoveries
    /\ \E error \in SentimentErrors : recovery' = attemptRecovery(recovery, error)
    /\ UNCHANGED <<cache, accessed, lookup>>
    /\ UNCHANGED managerVars
    /\ UNCHANGED svcVars

(* The timer of sleep(backoff) fires *)
SleepResolves ==
    /\ recovery.pc = "sleep"
    /\ recovery' = sleep(recovery)
    /\ UNCHANGED <<cache, accessed, lookup>>
    /\ UNCHANGED managerVars
    /\ UNCHANGED svcVars

(* The promise of operation() resolves *)
OperationResolves ==
    /\ recovery.pc = "operation"
    /\ recovery' = OperationResolved(recovery)
    /\ UNCHANGED <<cache, accessed, lookup>>
    /\ UNCHANGED managerVars
    /\ UNCHANGED svcVars

(* The promise of operation() rejects *)
OperationRejects ==
    /\ recovery.pc = "operation"
    /\ recovery' = OperationRejected(recovery, RetryError(recovery.currentAttempt))
    /\ UNCHANGED <<cache, accessed, lookup>>
    /\ UNCHANGED managerVars
    /\ UNCHANGED svcVars

-----------------------------------------------------------------------------
(* SentimentCacheService over the sentiment_cache table, called directly *)

(* Bounds of the cache scenario *)
MaxCacheCalls == 3     \* cacheSentiment and getCachedSentiment calls
MaxCacheTicks == 3     \* clock readings, half a time-to-live apart

CacheMessages == {"gm", "rip"}
(* Who sends a message and where: another user in the same room, the same
   user in another room *)
CacheContexts == {<<"u1", "r1">>, <<"u2", "r1">>, <<"u1", "r2">>}
CacheScores == {"0.43", "-1"}

(* The entries handed to cacheSentiment; the confidence is in hundredths *)
CacheEntries ==
    { [messageHash |-> hashMessage(m), sentiment |-> sc, confidence |-> 56,
       context |-> "[]", userId |-> c[1], roomId |-> c[2]] :
         m \in CacheMessages, sc \in CacheScores, c \in CacheContexts }

CacheClock == { k * (CACHE_TTL_MS \div 2) : k \in 0..MaxCacheTicks }

NoCacheCall ==
    [n |-> 0, op |-> "none", message |-> "", data |-> <<>>, at |-> 0,
     result |-> Null, threw |-> FALSE]

cacheFrame ==
    /\ UNCHANGED <<recovery, cache, accessed>>
    /\ UNCHANGED managerRest
    /\ UNCHANGED fnVars
    /\ UNCHANGED svcRest

(* cacheSentiment(data) is called and awaited *)
CacheSentimentOf(m, data) ==
    /\ lookup.n < MaxCacheCalls
    /\ data.messageHash = hashMessage(m)
    /\ cacheRows' = cacheSentiment(cacheRows, data, now).rows
    /\ lookup' = [n |-> lookup.n + 1, op |-> "cacheSentiment", message |-> m,
                  data |-> <<data>>, at |-> now, result |-> Null,
                  threw |-> cacheSentiment(cacheRows, data, now).threw]
    /\ UNCHANGED now
    /\ cacheFrame

CacheSentimentCall ==
    \E m \in CacheMessages, data \in CacheEntries : CacheSentimentOf(m, data)

(* getCachedSentiment(message) is called and awaited *)
GetCachedSentimentOf(m) ==
    /\ lookup.n < MaxCacheCalls
    /\ lookup' = [n |-> lookup.n + 1, op |-> "getCachedSentiment", message |-> m,
                  data |-> <<>>, at |-> now,
                  result |-> getCachedSentiment(cacheRows, m, now), threw |-> FALSE]
    /\ UNCHANGED <<now, cacheRows>>
    /\ cacheFrame

GetCachedSentimentCall == \E m \in CacheMessages : GetCachedSentimentOf(m)

(* Time passes between two calls of the cache service *)
CacheTick ==
    /\ \E t \in CacheClock : t > now /\ now' = t
    /\ UNCHANGED <<cacheRows, lookup>>
    /\ cacheFrame

-----------------------------------------------------------------------------
(* LRUCache<K, V> over a Map, whose keys iterate in insertion order *)

(* Bound of the recency cache scenario *)
LruCapacity == 3       \* maxSize of the cache

LruKeys == 1..(LruCapacity + 1)
LruValues == {1, 2}

(* Map.delete(key) *)
MapDelete(map, key) == SelectSeq(map, LAMBDA e : e.key # key)

(* if (value): the values of the cache are references to Float32Array
   objects, and Map.get of an absent key gives undefined, here 0 *)
Truthy(value) == value # 0

(* LRUCache.get(key): a value found is moved to the end of the Map *)
LruGet(map, key) ==
    IF Truthy(MapGet(map, key))
    THEN MapSet(MapDelete(map, key), key, MapGet(map, key))
    ELSE map

(* LRUCache.set(key, value): at maxSize the first key of the Map is deleted,
   then the Map is set *)
LruSet(map, key, value, maxSize) ==
    IF Len(map) >= maxSize
    THEN MapSet(MapDelete(map, map[1].key), key, value)
    ELSE MapSet(map, key, value)

(* The keys still in the map, in the order of their last get or set, with
   key as the latest *)
Touch(keys, map, key) ==
    SelectSeq(keys, LAMBDA k : k # key /\ k \in MapKeys(map)) \o <<key>>

lruFrame ==
    /\ UNCHANGED <<recovery, lookup>>
    /\ UNCHANGED managerVars
    /\ UNCHANGED svcVars

(* get(key) is called *)
LruGetOf(key) ==
    /\ cache' = LruGet(cache, key)
    /\ accessed' = IF key \in MapKeys(cache) THEN Touch(accessed, cache', key)
                   ELSE accessed
    /\ lruFrame

LruGetCall == \E key \in LruKeys : LruGetOf(key)

(* set(key, value) is called *)
LruSetOf(key, value) ==
    /\ cache' = LruSet(cache, key, value, LruCapacity)
    /\ accessed' = Touch(accessed, cache', key)
    /\ lruFrame

LruSetCall == \E key \in LruKeys, value \in LruValues : LruSetOf(key, value)

-----------------------------------------------------------------------------
(* The default scoring engine and the context statistics of
   SentimentAnalysisService, as pure functions. Numbers are fixed-point:
   scores, multipliers and confidences in thousandths. *)

One == 1000

(* THRESHOLDS *)
stronglyBearish == -300
mildlyBearish == -150
neutral == 150
mildlyBullish == 300

Abs(x) == IF x < 0 THEN -x ELSE x
Sign(x) == IF x > 0 THEN 1 ELSE IF x < 0 THEN -1 ELSE 0
Min(a, b) == IF a < b THEN a ELSE b
Max(a, b) == IF a > b THEN a ELSE b

(* a / b of numbers, rounded towards zero *)
Div(a, b) == Sign(a) * (Abs(a) \div b)

(* a * b of two numbers in thousandths *)
Times(a, b) == Div(a * b, One)

(* Math.sqrt of a number in thousandths *)
Sqrt(x) == CHOOSE r \in 0..x + One : r * r <= x * One /\ (r + 1) * (r + 1) > x * One

(* Math.pow(x, 0.7) at the tenths *)
Pow07Knots == <<0, 200, 324, 431, 527, 616, 699, 779, 855, 929, 1000>>

(* Math.pow(x, 0.7) of x >= 0 in thousandths: interpolated between the
   tenths below 1, and on the tangent at 1 above it (a value >= 1) *)
Pow07(x) ==
    IF x >= One THEN One + Div((x - One) * 7, 10)
    ELSE LET i == x \div 100
         IN  Pow07Knots[i + 1] + Div((Pow07Knots[i + 2] - Pow07Knots[i + 1]) * (x % 100), 100)

(* Mutant: the thresholds are exclusive *)
getCategoryExclusive(score) ==
    IF score < stronglyBearish THEN "strongly_bearish"
    ELSE IF score < mildlyBearish THEN "mildly_bearish"
    ELSE IF score < neutral THEN "neutral"
    ELSE IF score < mildlyBullish THEN "mildly_bullish"
    ELSE "strongly_bullish"

(* getCategory(score) *)
getCategory(score) ==
    IF score <= stronglyBearish THEN "strongly_bearish"
    ELSE IF score <= mildlyBearish THEN "mildly_bearish"
    ELSE IF score <= neutral THEN "neutral"
    ELSE IF score <= mildlyBullish THEN "mildly_bullish"
    ELSE "strongly_bullish"

(* calculateConfidence(score): Math.min(Math.abs(score), 1) *)
calculateConfidence(score) == Min(Abs(score), One)

(* A word of SENTIMENT_ANCHORS with its length *)
Anchor(word, length) == [word |-> word, length |-> length]

(* What the engine reads off a word of a message: its length, whether
   toUpperCase() leaves it as it is, the bullish and bearish anchors its
   lower case includes, the strong words it includes, its exclamation marks,
   its rocket, diamond, fire and bearish emojis, and whether a character
   comes four times in a row *)
Word(word, length, upper, bullish, bearish, strongPositive, strongNegative, exclamations, rockets, diamonds, fires, skulls, repeated) ==
    [word |-> word, length |-> length, upper |-> upper, bullish |-> bullish,
     bearish |-> bearish, strongPositive |-> strongPositive,
     strongNegative |-> strongNegative, exclamations |-> exclamations,
     rockets |-> rockets, diamonds |-> diamonds, fires |-> fires,
     skulls |-> skulls, repeated |-> repeated]

Words ==
    { Word("gm", 2, FALSE, {Anchor("gm", 2)}, {}, FALSE, FALSE, 0, 0, 0, 0, 0, FALSE),
      Word("AMAZING", 7, TRUE, {Anchor("amazing", 7)}, {}, TRUE, FALSE, 0, 0, 0, 0, 0, FALSE),
      Word("rekt", 4, FALSE, {}, {Anchor("rekt", 4)}, FALSE, FALSE, 0, 0, 0, 0, 0, FALSE),
      Word("terrible", 8, FALSE, {}, {Anchor("terrible", 8)}, FALSE, TRUE, 0, 0, 0, 0, 0, FALSE),
      Word("ok", 2, FALSE, {}, {}, FALSE, FALSE, 0, 0, 0, 0, 0, FALSE),
      Word("LFGGGG", 6, TRUE, {Anchor("lfg", 3), Anchor("LFG", 3)}, {}, FALSE, FALSE,
           0, 0, 0, 0, 0, TRUE),
      Word("!!!", 3, TRUE, {}, {}, FALSE, FALSE, 3, 0, 0, 0, 0, FALSE),
      Word("<rocket>", 4, FALSE, {Anchor("<rocket>", 4)}, {}, FALSE, FALSE,
           0, 1, 0, 0, 0, FALSE),
      Word("<skull>", 4, FALSE, {}, {Anchor("<skull>", 4)}, FALSE, FALSE,
           0, 0, 0, 0, 1, FALSE) }

(* Bound of the scoring scenario *)
MaxWords == 2          \* words of an analyzed message

(* The messages: words joined by single spaces *)
ScoredMessages == UNION { [1..n -> Words] : n \in 1..MaxWords }

RECURSIVE SumOver(_, _)
SumOver(text, field) ==
    IF text = <<>> THEN 0 ELSE Head(text)[field] + SumOver(Tail(text), field)

AnchorsOf(text, field) == UNION { text[i][field] : i \in 1..Len(text) }

(* The sum of the weights of the matched anchors, in tenths: 1.5 for a word
   longer than 6, else 1.0 *)
RECURSIVE WeightOf(_)
WeightOf(anchors) ==
    IF anchors = {} THEN 0
    ELSE LET m == CHOOSE a \in anchors : TRUE
         IN  (IF m.length > 6 THEN 15 ELSE 10) + WeightOf(anchors \ {m})

(* text.length *)
Length(text) == SumOver(text, "length") + Len(text) - 1

Some(text, field) == \E i \in 1..Len(text) : text[i][field]

(* text.split(' ').filter(word => word.length > 2 && word === word.toUpperCase()) *)
capsWords(text) ==
    Cardinality({i \in 1..Len(text) : text[i].length > 2 /\ text[i].upper})

(* calculateEmphasisMultiplier(text) *)
calculateEmphasisMultiplier(text) ==
    LET rocketCount == SumOver(text, "rockets")
        exclamationCount == SumOver(text, "exclamations")
        m1 == IF rocketCount >= 3 THEN 2500 ELSE IF rocketCount > 0 THEN 1500 ELSE One
        m2 == IF SumOver(text, "diamonds") > 0 THEN Times(m1, 2000) ELSE m1
        m3 == IF SumOver(text, "fires") >= 2 THEN Times(m2, 2000) ELSE m2
        m4 == IF SumOver(text, "skulls") > 0 THEN Times(m3, 1800) ELSE m3
        m5 == IF capsWords(text) >= 2 THEN Times(m4, 2000)
              ELSE IF capsWords(text) = 1 THEN Times(m4, 1500) ELSE m4
        m6 == IF Some(text, "repeated") THEN Times(m5, 1500) ELSE m5
        m7 == IF exclamationCount >= 3 THEN Times(m6, 1800)
              ELSE IF exclamationCount > 0 THEN Times(m6, 1300) ELSE m6
    IN  IF capsWords(text) >= 2 /\ exclamationCount >= 3 THEN Times(m7, 1500) ELSE m7

(* calculateSentimentScore(text, embedding); the embedding is not read *)
calculateSentimentScore(text) ==
    LET bullishScore == WeightOf(AnchorsOf(text, "bullish"))
        bearishScore == WeightOf(AnchorsOf(text, "bearish"))
        ratio == Div((bullishScore - bearishScore) * One, Max(bullishScore + bearishScore, 10))
        base == IF bullishScore > 0 \/ bearishScore > 0
                THEN Sign(ratio) * Sqrt(Abs(ratio)) ELSE 0
        hasExclamation == SumOver(text, "exclamations") > 0
        isAllCaps == (\A i \in 1..Len(text) : text[i].upper) /\ Length(text) > 3
        hasPositiveEmojis == SumOver(text, "rockets") + SumOver(text, "diamonds")
                                + SumOver(text, "fires") > 0
        hasNegativeEmojis == SumOver(text, "skulls") > 0
        m1 == IF hasExclamation THEN 1500 ELSE One
        m2 == IF isAllCaps THEN Times(m1, 2000) ELSE m1
        m3 == IF hasPositiveEmojis THEN Times(m2, 1500) ELSE m2
        m4 == IF hasNegativeEmojis THEN Times(m3, 1500) ELSE m3
        m5 == IF SumOver(text, "exclamations") >= 2 THEN Times(m4, 1500) ELSE m4
        m6 == IF hasExclamation /\ isAllCaps THEN Times(m5, 1500) ELSE m5
        m7 == IF Some(text, "strongPositive") THEN Times(m6, 1500) ELSE m6
        multiplier == IF Some(text, "strongNegative") THEN Times(m7, 1500) ELSE m7
        s1 == IF base = 0 /\ isAllCaps THEN 300 ELSE base
        s2 == IF base = 0 /\ hasExclamation THEN s1 + 200 ELSE s1
        s3 == IF base = 0 /\ hasPositiveEmojis THEN s2 + 300 ELSE s2
        s4 == IF base = 0 /\ hasNegativeEmojis THEN -300 ELSE s3
        score == Sign(s4) * Pow07(Abs(Times(s4, multiplier)))
    IN  Min(One, Max(-One, score))

(* getDefaultStrategy().analyze(message, embedding) *)
analyze(text) ==
    [score |-> calculateSentimentScore(text),
     category |-> getCategory(calculateSentimentScore(text)),
     confidence |-> Times(calculateEmphasisMultiplier(text),
                          calculateConfidence(calculateSentimentScore(text)))]

(* The scores getCategory is applied to, around its thresholds *)
CategoryScores ==
    {-1000, -650, -301, -300, -299, -151, -150, -149, 0,
     149, 150, 151, 299, 300, 301, 650, 1000}

(* Bounds of the context scenario *)
MaxScores == 4         \* similarity scores of a query result
MaxMatches == 3        \* matches handed to getDominantCategory

(* Similarity scores, in tenths *)
SimilarityScores == {-10, -3, 0, 4, 10}
ScoreLists == UNION { [1..n -> SimilarityScores] : n \in 0..MaxScores }

RECURSIVE IntPow(_, _)
IntPow(b, e) == IF e = 0 THEN 1 ELSE b * IntPow(b, e - 1)

(* Math.pow(base, i / n) in tenths, rounded down *)
PowFrac(base, i, n) ==
    CHOOSE r \in 0..10 * base :
        IntPow(r, n) <= IntPow(base, i) * IntPow(10, n)
            /\ IntPow(r + 1, n) > IntPow(base, i) * IntPow(10, n)

RECURSIVE Sum(_)
Sum(xs) == IF xs = <<>> THEN 0 ELSE Head(xs) + Sum(Tail(xs))

(* scores.slice(1).map((score, i) => score - scores[i]) *)
Changes(scores) == [i \in 1..Len(scores) - 1 |-> scores[i + 1] - scores[i]]

(* calculateVolatility(scores), in thousandths: the cubes of the absolute
   differences (thousandths) weighted by 4^(i/n) (tenths), their mean, times 8 *)
calculateVolatility(scores) ==
    IF Len(scores) < 2 THEN 0
    ELSE LET differences == Changes(scores)
             n == Len(differences)
             weightedDiffs == [i \in 1..n |->
                 IntPow(Abs(differences[i]), 3) * PowFrac(4, i - 1, n)]
             volatility == Div(Sum(weightedDiffs), n)
         IN  Min(One, Div(volatility * 8, 10))

(* Mutant: the trend is not clamped *)
calculateTrendUnclamped(scores) ==
    IF Len(scores) < 2 THEN 0
    ELSE LET changes == Changes(scores)
             n == Len(changes)
             weightedChanges == [i \in 1..n |->
                 IntPow(Abs(changes[i]), 2) * Sign(changes[i]) * PowFrac(3, i - 1, n)]
         IN  Div(Sum(weightedChanges), n) * 6

(* calculateTrend(scores), in thousandths: the signed squares of the changes
   (hundredths) weighted by 3^(i/n) (tenths), their mean, times 6 *)
calculateTrend(scores) ==
    IF Len(scores) < 2 THEN 0
    ELSE LET changes == Changes(scores)
             n == Len(changes)
             weightedChanges == [i \in 1..n |->
                 IntPow(Abs(changes[i]), 2) * Sign(changes[i]) * PowFrac(3, i - 1, n)]
             trend == Div(Sum(weightedChanges), n)
         IN  Min(One, Max(-One, trend * 6))

(* The category metadata of the matches: Undefined where a match has none *)
MatchCategories == {Undefined, "mildly_bearish", "neutral", "strongly_bullish"}
MatchLists == UNION { [1..n -> MatchCategories] : n \in 0..MaxMatches }
OwnCategories == {"neutral", "strongly_bearish"}

(* The keys of categoryCount, in the order they were first counted *)
RECURSIVE CountedKeys(_)
CountedKeys(categories) ==
    IF categories = <<>> THEN <<>>
    ELSE LET front == SubSeq(categories, 1, Len(categories) - 1)
             last == categories[Len(categories)]
         IN  IF last \in SeqRange(front) THEN CountedKeys(front)
             ELSE Append(CountedKeys(front), last)

(* Object.entries(categoryCount) *)
Entries(categories) ==
    [i \in 1..Len(CountedKeys(categories)) |->
        <<CountedKeys(categories)[i],
          Cardinality({j \in 1..Len(categories) :
                         categories[j] = CountedKeys(categories)[i]})>>]

(* entries.reduce((a, b) => (a[1] > b[1] ? a : b)) *)
RECURSIVE Reduce(_)
Reduce(entries) ==
    IF Len(entries) = 1 THEN entries[1]
    ELSE LET a == Reduce(SubSeq(entries, 1, Len(entries) - 1))
             b == entries[Len(entries)]
         IN  IF a[2] > b[2] THEN a ELSE b

(* Mutant: the category of the first match wins *)
getDominantCategoryFirst(matches, defaultCategory) ==
    LET categories == SelectSeq(matches, LAMBDA c : c # Undefined)
    IN  IF Len(categories) = 0 THEN defaultCategory ELSE categories[1]

(* getDominantCategory(matches, defaultCategory) *)
getDominantCategory(matches, defaultCategory) ==
    LET categories == SelectSeq(matches, LAMBDA c : c # Undefined)
    IN  IF Len(categories) = 0 THEN defaultCategory
        ELSE Reduce(Entries(categories))[1]

(* The inputs of the pure functions *)
FnInputs ==
    { [fn |-> "getCategory", a |-> a, b |-> b] : a \in CategoryScores, b \in CategoryScores }
    \cup { [fn |-> "analyze", text |-> text] : text \in ScoredMessages }
    \cup { [fn |-> "context", scores |-> scores] : scores \in ScoreLists }
    \cup { [fn |-> "getDominantCategory", matches |-> matches, own |-> own] :
             matches \in MatchLists, own \in OwnCategories }

fnFrame ==
    /\ UNCHANGED <<now, fnIn>>
    /\ UNCHANGED managerRest
    /\ UNCHANGED svcVars
    /\ UNCHANGED libVars

(* getCategory applied to two scores *)
ApplyGetCategory ==
    /\ fnOut = <<>>
    /\ fnIn.fn = "getCategory"
    /\ fnOut' = [a |-> getCategory(fnIn.a), b |-> getCategory(fnIn.b)]
    /\ fnFrame

(* The default strategy applied to a message *)
ApplyAnalyze ==
    /\ fnOut = <<>>
    /\ fnIn.fn = "analyze"
    /\ fnOut' = analyze(fnIn.text)
    /\ fnFrame

(* calculateTrend and calculateVolatility applied to the scores of the matches *)
ApplyContext ==
    /\ fnOut = <<>>
    /\ fnIn.fn = "context"
    /\ fnOut' = [recentTrend |-> calculateTrend(fnIn.scores),
                 volatility |-> calculateVolatility(fnIn.scores)]
    /\ fnFrame

(* getDominantCategory applied to the matches and the message's category *)
ApplyGetDominantCategory ==
    /\ fnOut = <<>>
    /\ fnIn.fn = "getDominantCategory"
    /\ fnOut' = [dominantCategory |-> getDominantCategory(fnIn.matches, fnIn.own)]
    /\ fnFrame

(* The library objects after construction *)
InitLib ==
    /\ recovery = IdleRecovery
    /\ cache = <<>>
    /\ accessed = <<>>
    /\ lookup = NoCacheCall

-----------------------------------------------------------------------------
(* The manager driven through its public synchronous operations, in any order *)
Init ==
    /\ InitManager
    /\ fnIn = <<>>
    /\ fnOut = <<>>
    /\ InitService({"default"})
    /\ InitLib

Next ==
    \/ Tick(ClockReadings)
    \/ AddMessageCall(Chats, MaxAdds)
    \/ GetReadyWindowsCall
    \/ MarkWindowCompleteCall
    \/ CleanupCall

Spec == Init /\ [][Next]_vars

(* Bursts of messages in two chats; windows are completed the way the sweep
   completes them *)
NextBurst ==
    \/ Tick(BurstClock)
    \/ AddMessageCall(TwoChats, MaxBurst)
    \/ GetReadyWindowsCall
    \/ MarkReturnedComplete

SpecBurst == Init /\ [][NextBurst]_vars

(* Three messages and the sweeps that follow *)
NextThree ==
    \/ Tick(FineClock)
    \/ AddMessageCall(TwoChats, MaxThree)
    \/ GetReadyWindowsCall

SpecThree == Init /\ [][NextThree]_vars

(* The processing loop: messages arrive, the timer sweeps, handlers settle *)
NextLoop ==
    \/ Tick(LoopClock)
    \/ AddMessageCall(TwoChats, MaxLoopAdds)
    \/ StartProcessing
    \/ StopProcessing
    \/ TimerFire
    \/ HandlerResolve
    \/ HandlerReject

SpecLoop == Init /\ [][NextLoop]_vars

(* getWindowId on bounded inputs *)
InitId ==
    /\ InitManager
    /\ fnIn \in [chatA : IdChats, chatB : IdChats, t1 : IdTimes, t2 : IdTimes]
    /\ fnOut = <<>>
    /\ InitService({"default"})
    /\ InitLib

NextId == ApplyGetWindowId

SpecId == InitId /\ [][NextId]_vars

(* Analyses, one at a time, with failing providers, strategy changes and the
   background cache writes *)
InitAnalyze ==
    /\ InitManager
    /\ fnIn = <<>>
    /\ fnOut = <<>>
    /\ InitService({"default"} \cup Strategies)
    /\ InitLib

NextAnalyze ==
    \/ AnalyzeSentimentCall(AnalyzedTexts, MaxAnalyses, 1)
    \/ SetStrategy
    \/ ProviderResolves
    \/ ProviderRejects(MaxFaults)
    \/ RunImmediate

SpecAnalyze == InitAnalyze /\ [][NextAnalyze]_vars

(* Observers come and go while messages are analyzed *)
NextObserve ==
    \/ AddObserver
    \/ RemoveObserver
    \/ AnalyzeSentimentCall({"gm"}, MaxObserved, 2)
    \/ ProviderResolves
    \/ RunImmediate

SpecObserve == Init /\ [][NextObserve]_vars

(* initialize() called again and again while the embedding provider fails *)
NextInit ==
    \/ InitializeCall(MaxInits, 1)
    \/ ProviderResolves
    \/ ProviderRejects(MaxInitFaults)

SpecInit == Init /\ [][NextInit]_vars

(* One analysis at a time while every external call may fail until its
   retries are exhausted *)
NextFail ==
    \/ AnalyzeSentimentCall(AnalyzedTexts, MaxFailAnalyses, 1)
    \/ ProviderResolves
    \/ ProviderRejects(MaxFailFaults)
    \/ RunImmediate

SpecFail == InitAnalyze /\ [][NextFail]_vars

(* attemptRecovery called with the errors of the service while the operation
   succeeds or fails *)
NextRecovery ==
    \/ AttemptRecoveryCall
    \/ SleepResolves
    \/ OperationResolves
    \/ OperationRejects

SpecRecovery == Init /\ [][NextRecovery]_vars

(* Entries are cached and looked up while time passes *)
NextCache ==
    \/ CacheSentimentCall
    \/ GetCachedSentimentCall
    \/ CacheTick

SpecCache == Init /\ [][NextCache]_vars

(* Keys are read and written in any order *)
NextLru ==
    \/ LruGetCall
    \/ LruSetCall

SpecLru == Init /\ [][NextLru]_vars

(* The scoring functions on bounded inputs *)
InitFn ==
    /\ InitManager
    /\ fnIn \in FnInputs
    /\ fnOut = <<>>
    /\ InitService({"default"})
    /\ InitLib

NextFn ==
    \/ ApplyGetCategory
    \/ ApplyAnalyze
    \/ ApplyContext
    \/ ApplyGetDominantCategory

SpecFn == InitFn /\ [][NextFn]_vars

(* initialize() and cleanup() called one after the other while the embedding
   provider and the cache cleanup may fail *)
NextCleanup ==
    \/ InitializeCall(MaxCleanupCalls, 1)
    \/ ServiceCleanupCall(MaxCleanupCalls, 1, MaxCleanupFaults)
    \/ ProviderResolves
    \/ ProviderRejects(MaxCleanupFaults)

SpecCleanup == Init /\ [][NextCleanup]_vars

(* The processing loop is started and never stopped, and messages arrive
   during the first window: the clock advances to its last reading, a due
   timer fires, and every handler promise settles *)
NextLive ==
    \/ Tick(LoopClock)
    \/ (now < WINDOW_SIZE_MS /\ AddMessageCall(TwoChats, MaxLiveAdds))
    \/ StartProcessingOf("p1")
    \/ TimerFire
    \/ HandlerResolve
    \/ HandlerReject

SpecLoopLive ==
    /\ Init
    /\ [][NextLive]_vars
    /\ WF_vars(Tick(LoopClock))
    /\ WF_vars(TimerFire)
    /\ WF_vars(HandlerResolve \/ HandlerReject)

(* Every sleep ends and every operation call settles *)
SpecRecoveryLive ==
    /\ SpecRecovery
    /\ WF_vars(SleepResolves)
    /\ WF_vars(OperationResolves \/ OperationRejects)

-----------------------------------------------------------------------------
(* Properties *)

Refs == DOMAIN windows
Managed == MapRefs(activeWindows)
Count(ref) == Len(windows[ref].messages)
MessageIds(ref) == {windows[ref].messages[i].messageId : i \in 1..Count(ref)}
BucketId(chatId, t) == getWindowId(chatId, t)

(* C1: no message is ever dropped. As long as cleanup has not been called,
   every message passed to addMessage is in the message list of a window that
   is in the manager's map or was returned by getReadyWindows. *)
C1_NoMessageDropped ==
    ~cleaned =>
        \A n \in 1..added : \E ref \in Managed \cup returned : n \in MessageIds(ref)

(* The readiness rule as the claim states it *)
C2_ShouldReturn(ref) ==
    /\ windows[ref].status = "collecting"
    /\ \/ Count(ref) >= 5
       \/ (now >= windows[ref].endTime /\ Count(ref) >= 2)

(* C2: getReadyWindows returns a managed window if and only if it is
   collecting and holds at least 5 messages, or holds at least 2 and the
   current time has reached its endTime; every returned window becomes
   processing and every other window keeps its status; a window holding
   exactly 1 message is never returned. *)
C2_ReadyIffRule ==
    [][GetReadyWindowsCall =>
        LET ret == SeqRange(lastReady'.ret)
        IN  /\ lastReady'.called
            /\ ret \subseteq Managed
            /\ \A ref \in Managed : (ref \in ret) <=> C2_ShouldReturn(ref)
            /\ \A ref \in Refs :
                 windows'[ref].status =
                    IF ref \in ret THEN "processing" ELSE windows[ref].status
            /\ \A ref \in Managed : Count(ref) = 1 => ref \notin ret]_vars

(* C2 witness: a window was returned for holding 5 messages before its
   endTime. *)
C2_Witness ==
    \E ref \in returned :
        /\ Count(ref) >= 5
        /\ now < windows[ref].endTime
        /\ windows[ref].status = "processing"

(* The bucket of (chatId, now) has a window that is processing or completed *)
C3_BucketClosed(chatId) ==
    /\ MapHas(activeWindows, BucketId(chatId, now))
    /\ windows[MapGet(activeWindows, BucketId(chatId, now))].status
            \in {"processing", "completed"}

(* C3: addMessage for a bucket whose window is processing or completed creates
   and returns a new window with id <bucketId>_overflow, collecting, holding
   only the new message; the original window is unchanged. *)
C3_OverflowWindow ==
    [][(added' = added + 1 /\ C3_BucketClosed(lastAdd'.chatId)) =>
        LET bucket == BucketId(lastAdd'.chatId, now)
            orig == MapGet(activeWindows, bucket)
            new == lastAdd'.ret
        IN  /\ new \notin Refs
            /\ new \in DOMAIN windows'
            /\ windows'[new].windowId = bucket \o "_overflow"
            /\ windows'[new].status = "collecting"
            /\ Len(windows'[new].messages) = 1
            /\ windows'[new].messages[1].messageId = added'
            /\ MapGet(activeWindows', bucket \o "_overflow") = new
            /\ windows'[orig] = windows[orig]
            /\ MapGet(activeWindows', bucket) = orig]_vars

(* C3 witness: the last addMessage returned an overflow window of a bucket
   whose window is processing. *)
C3_Witness ==
    /\ lastAdd.ret # 0
    /\ windows[lastAdd.ret].windowId = BucketId(lastAdd.chatId, now) \o "_overflow"
    /\ MapHas(activeWindows, BucketId(lastAdd.chatId, now))
    /\ windows[MapGet(activeWindows, BucketId(lastAdd.chatId, now))].status = "processing"

(* C4: a window's status changes only collecting -> processing and
   processing -> completed. *)
C4_StatusOrder ==
    [][\A ref \in Refs :
        windows'[ref].status # windows[ref].status =>
            \/ (windows[ref].status = "collecting" /\ windows'[ref].status = "processing")
            \/ (windows[ref].status = "processing" /\ windows'[ref].status = "completed")]_vars

(* C5: once a window is processing or completed its message list never
   changes. *)
C5_ClosedWindowFrozen ==
    [][\A ref \in Refs :
        windows[ref].status # "collecting" =>
            windows'[ref].messages = windows[ref].messages]_vars

(* C5 witness: a completed window that holds 5 messages, and an overflow
   window created for its bucket by a later addMessage. *)
C5_Witness ==
    \E ref \in Refs, over \in Refs :
        /\ windows[ref].status = "completed"
        /\ Count(ref) = 5
        /\ windows[over].windowId = windows[ref].windowId \o "_overflow"
        /\ windows[over].messages[1].messageId > windows[ref].messages[5].messageId

(* C6: for one chat two timestamps give the same window id exactly when they
   fall in the same bucket [k*W, (k+1)*W), and the ids of different chats
   never coincide. *)
C6_SameIdIffSameBucket ==
    fnOut # <<>> =>
        /\ fnIn.chatA = fnIn.chatB =>
              ((fnOut.a = fnOut.b) <=> (fnIn.t1 \div 30000 = fnIn.t2 \div 30000))
        /\ fnIn.chatA # fnIn.chatB => fnOut.a # fnOut.b

(* C6 witness: two different timestamps of one bucket got the same id. *)
C6_Witness ==
    /\ fnOut # <<>>
    /\ fnIn.chatA = fnIn.chatB
    /\ fnIn.t1 # fnIn.t2
    /\ fnOut.a = fnOut.b

(* The entries of one chat, over all windows, as (window, position) pairs *)
C7_Entries(chatId) ==
    {e \in Refs \X (1..added) : windows[e[1]].chatId = chatId /\ e[2] <= Count(e[1])}

C7_Arrival(e) == windows[e[1]].messages[e[2]].timestamp
C7_Id(e) == windows[e[1]].messages[e[2]].messageId

(* Three messages are all the chat has, they arrived within 2 seconds, 30
   seconds have passed since, and none of the chat's windows was swept yet *)
C7_ThreeWaiting(chatId) ==
    LET es == C7_Entries(chatId)
    IN  /\ Cardinality(es) = 3
        /\ \A e \in es, f \in es : C7_Arrival(e) - C7_Arrival(f) <= 2000
        /\ \A e \in es : now >= C7_Arrival(e) + 30000
        /\ \A ref \in Refs : windows[ref].chatId = chatId => windows[ref].status = "collecting"

C7_SameBucket(chatId) ==
    \A e \in C7_Entries(chatId), f \in C7_Entries(chatId) :
        C7_Arrival(e) \div 30000 = C7_Arrival(f) \div 30000

(* The sweep returns one window of the chat, holding the three in arrival order *)
C7_OneWindowWithAll(chatId) ==
    LET ret == {ref \in SeqRange(lastReady'.ret) : windows[ref].chatId = chatId}
        ids == {C7_Id(e) : e \in C7_Entries(chatId)}
    IN  /\ Cardinality(ret) = 1
        /\ Len(SelectSeq(lastReady'.ret, LAMBDA ref : windows[ref].chatId = chatId)) = 1
        /\ \A ref \in ret :
            /\ Count(ref) = 3
            /\ MessageIds(ref) = ids
            /\ \A i \in 1..2 : windows[ref].messages[i].messageId
                                 < windows[ref].messages[i + 1].messageId
            /\ windows'[ref].messages = windows[ref].messages

(* C7 as stated: three messages of a chat within 2 seconds, anywhere on the
   bucket grid; the sweep 30 seconds later returns exactly one window of the
   chat with all three in arrival order. *)
C7_AnyThreeWithinTwoSeconds ==
    [][\A chatId \in TwoChats :
        (GetReadyWindowsCall /\ C7_ThreeWaiting(chatId)) => C7_OneWindowWithAll(chatId)]_vars

(* C7 amended: the same, for three messages that fall in the same 30-second
   bucket. *)
C7_ThreeInOneBucket ==
    [][\A chatId \in TwoChats :
        (GetReadyWindowsCall /\ C7_ThreeWaiting(chatId) /\ C7_SameBucket(chatId))
            => C7_OneWindowWithAll(chatId)]_vars

(* C7 witness: a window holding three messages that arrived at different
   times was returned by a sweep 30 seconds after the last of them. *)
C7_Witness ==
    \E ref \in returned :
        /\ Count(ref) = 3
        /\ windows[ref].messages[1].timestamp < windows[ref].messages[3].timestamp
        /\ now >= windows[ref].messages[3].timestamp + 30000
        /\ windows[ref].status = "processing"
        /\ Cardinality(C7_Entries(windows[ref].chatId)) = 3

(* The window whose handler promise sweep k awaits *)
Pending(k) == sweeps[k].ready[sweeps[k].idx]

(* C8: when the handler rejects for one ready window, the sweep goes on: the
   next ready window of that sweep is passed to the registered handler, the
   sweep's own promise does not reject, and the timer stays armed. *)
C8_RejectionIsolated ==
    [][\A k \in 1..Len(sweeps) :
        HandlerRejectOf(k) =>
            /\ ~unhandled'
            /\ lastLog' = "error: Error processing window"
            /\ timers' = timers
            /\ processingInterval' = processingInterval
            /\ (processingInterval # 0 => timers # {})
            /\ (sweeps[k].idx < Len(sweeps[k].ready) /\ windowProcessor # "null") =>
                 /\ handed' = Append(handed, [ref |-> sweeps[k].ready[sweeps[k].idx + 1],
                                              processor |-> windowProcessor])
                 /\ \E j \in 1..Len(sweeps') :
                        /\ sweeps'[j].ready = sweeps[k].ready
                        /\ sweeps'[j].idx = sweeps[k].idx + 1]_vars

(* C8 witness: the handler rejected for the first window of a sweep, and the
   second was passed to the handler, with the timer armed. *)
C8_Witness ==
    \E k \in 1..Len(sweeps) :
        /\ sweeps[k].idx = 2
        /\ sweeps[k].ready[1] \in rejected
        /\ \E i \in 1..Len(handed) : handed[i].ref = sweeps[k].ready[2]
        /\ timers # {}
        /\ ~unhandled

(* C9: a window is marked completed only when the handler promise awaited for
   it resolves; while that promise is pending the window is processing; and a
   window whose handler rejected is never marked completed. *)
C9_CompletedAfterResolve ==
    /\ [](\A k \in 1..Len(sweeps) : windows[Pending(k)].status = "processing")
    /\ [](\A ref \in rejected : windows[ref].status = "processing")
    /\ [][\A ref \in Refs :
            (windows[ref].status # "completed" /\ windows'[ref].status = "completed") =>
                \E k \in 1..Len(sweeps) : Pending(k) = ref /\ HandlerResolveOf(k)]_vars

(* C9 witness: the first window of a sweep was completed on resolution and
   the handler of the second is pending. *)
C9_Witness ==
    \E k \in 1..Len(sweeps) :
        /\ sweeps[k].idx = 2
        /\ windows[sweeps[k].ready[1]].status = "completed"
        /\ windows[Pending(k)].status = "processing"

(* C10: startProcessing while a loop is active changes neither the processor
   nor the timer and creates no timer: there is at most one timer, and a
   processor exactly when there is a timer. *)
C10_RestartIsNoOp ==
    /\ [](Cardinality(timers) <= 1)
    /\ []((timers = {}) <=> (windowProcessor = "null"))
    /\ [][\A p \in Processors :
            (processingInterval # 0 /\ StartProcessingOf(p)) =>
                /\ windowProcessor' = windowProcessor
                /\ processingInterval' = processingInterval
                /\ timers' = timers
                /\ timersCreated' = timersCreated
                /\ lastLog' = "warn: Processing loop already started"
                /\ unhandled' = unhandled]_vars

(* C10 witness: a second startProcessing was refused with the warning while
   the first processor and its timer are in place. *)
C10_Witness ==
    /\ lastLog = "warn: Processing loop already started"
    /\ windowProcessor # "null"
    /\ Cardinality(timers) = 1
    /\ timersCreated = 1

(* C11: the handler is invoked at most once per ready window: over all timer
   sweeps, overlapping ones included, no window object is passed to the
   handler twice. *)
C11_HandedAtMostOnce ==
    \A i \in 1..Len(handed), j \in 1..Len(handed) :
        i # j => handed[i].ref # handed[j].ref

(* C11 witness: a second sweep started while the handler of an earlier sweep
   was still pending, and each passed its own window to the handler. *)
C11_Witness ==
    /\ Len(sweeps) = 2
    /\ Pending(1) # Pending(2)
    /\ \A k \in 1..2 : \E i \in 1..Len(handed) : handed[i].ref = Pending(k)

(* The removal rule as the claim states it *)
C12_ShouldRemove(ref) ==
    \/ windows[ref].status = "completed"
    \/ now - windows[ref].startTime > 2 * 30000

C12_Kept(entry) == \E j \in 1..Len(activeWindows') : activeWindows'[j] = entry

(* C12: cleanup() removes from the map exactly the windows that are completed
   or older than twice the window duration; every other window stays in the
   map under its key with its status and messages unchanged, and after cleanup
   no completed window remains in the map. *)
C12_CleanupExact ==
    [][CleanupCall =>
        /\ \A i \in 1..Len(activeWindows) :
              C12_ShouldRemove(activeWindows[i].ref) <=> ~C12_Kept(activeWindows[i])
        /\ \A j \in 1..Len(activeWindows') :
              \E i \in 1..Len(activeWindows) : activeWindows[i] = activeWindows'[j]
        /\ windows' = windows
        /\ \A ref \in MapRefs(activeWindows') : windows'[ref].status # "completed"]_vars

(* C12 witness: after cleanup a collecting window older than 60 seconds is
   gone from the map, and a collecting window exactly 60 seconds old is
   still in it. *)
C12_Witness ==
    /\ cleaned
    /\ \E ref \in Refs :
          /\ ~MapHas(activeWindows, windows[ref].windowId)
          /\ windows[ref].status = "collecting"
          /\ now - windows[ref].startTime > 60000
    /\ \E ref \in Managed :
          /\ windows[ref].status = "collecting"
          /\ now - windows[ref].startTime = 60000

(* The message list the window had before the step, empty for a new window *)
C13_Before(ref) == IF ref \in Refs THEN windows[ref].messages ELSE <<>>

(* C13: within every window the message list is in arrival order of the
   addMessage calls that appended to it: every call appends its message at
   the end of the returned window's list, whether or not an equal message is
   already there, no step changes a list in any other way, and so the call
   numbers in every list are strictly increasing. *)
C13_ArrivalOrder ==
    /\ [](\A ref \in Refs : \A i \in 1..Count(ref), j \in 1..Count(ref) :
            i < j => windows[ref].messages[i].messageId < windows[ref].messages[j].messageId)
    /\ [][added' = added + 1 =>
            LET ref == lastAdd'.ret
                list == windows'[ref].messages
            IN  /\ Len(list) = Len(C13_Before(ref)) + 1
                /\ SubSeq(list, 1, Len(list) - 1) = C13_Before(ref)
                /\ list[Len(list)].messageId = added'
                /\ \A other \in Refs \ {ref} :
                      windows'[other].messages = windows[other].messages]_vars
    /\ [][added' = added =>
            \A ref \in Refs : windows'[ref].messages = windows[ref].messages]_vars

(* C13 witness: a window holds the same message (text, user, timestamp)
   twice, from two consecutive addMessage calls, after an earlier different
   one. *)
C13_Witness ==
    \E ref \in Refs :
        /\ Count(ref) >= 3
        /\ windows[ref].messages[1].timestamp # windows[ref].messages[2].timestamp
        /\ windows[ref].messages[2].timestamp = windows[ref].messages[3].timestamp
        /\ windows[ref].messages[2].text = windows[ref].messages[3].text
        /\ windows[ref].messages[2].userId = windows[ref].messages[3].userId
        /\ windows[ref].messages[2].messageId + 1 = windows[ref].messages[3].messageId

(* C14: analyzeSentiment consults the cache first: a call made while an
   unexpired cache entry exists for the exact text returns (the cached
   result) and makes no call to the embedding provider and no call to the
   vector store. *)
C14_CacheHitSkipsProviders ==
    /\ \A k \in 1..Len(calls) :
          (calls[k].op = "analyze" /\ calls[k].cached) =>
              calls[k].embedCalls = 0 /\ calls[k].vectorCalls = 0
    /\ (finished.op = "analyze" /\ finished.cached) =>
          /\ finished.kind = "resolved"
          /\ finished.embedCalls = 0
          /\ finished.vectorCalls = 0

(* The step in which analyzeSentiment, its vector query answered, builds the
   result and notifies the observers *)
NotifyingStep(k) ==
    /\ calls[k].pc = "vector"
    /\ calls[k].attempt = 0
    /\ ProviderResolvesFor(k)

(* C15: an observer whose onSentimentUpdate throws does not keep the other
   registered observers from being notified, and does not keep
   analyzeSentiment from returning the result. *)
C15_ThrowingObserverIsolated ==
    [][\A k \in 1..Len(calls) :
        NotifyingStep(k) =>
            /\ \A o \in SeqRange(observers) :
                  \E i \in 1..Len(notified') : notified'[i].observer = o
            /\ finished'.id = calls[k].id
            /\ finished'.kind = "resolved"]_vars

(* C16: every successful analyzeSentiment call notifies exactly the observers
   registered at that moment, each once, in registration order, with the
   result that is returned; the registered observers are those added and not
   since removed, in order of their (latest) addition. *)
C16_NotifiesRegisteredInOrder ==
    /\ [](\A i \in 1..Len(observers), j \in 1..Len(observers) :
             i # j => observers[i] # observers[j])
    /\ [][observers' # observers =>
            \E o \in Observers :
                \/ o \notin SeqRange(observers) /\ observers' = Append(observers, o)
                \/ /\ o \in SeqRange(observers)
                   /\ observers' = SelectSeq(observers, LAMBDA x : x # o)]_vars
    /\ [][\A k \in 1..Len(calls) :
            (NotifyingStep(k) /\ finished'.kind = "resolved") =>
                /\ finished'.id = calls[k].id
                /\ Len(notified') = Len(observers)
                /\ \A i \in 1..Len(observers) :
                      /\ notified'[i].observer = observers[i]
                      /\ notified'[i].result = finished'.result]_vars

(* C16 witness: a call returned after notifying o2 and then o1, registered in
   that order, with the returned result. *)
C16_Witness ==
    /\ finished.kind = "resolved"
    /\ finished.op = "analyze"
    /\ Len(notified) = 2
    /\ notified[1] = [observer |-> "o2", result |-> finished.result]
    /\ notified[2] = [observer |-> "o1", result |-> finished.result]
    /\ observers = <<"o2", "o1">>

(* C17: the score of an analysis comes from the strategy in place: when the
   embedding is there, analyze is called once on the strategy last given to
   setStrategy or, before any setStrategy, to the constructor, and a call that
   returns carries exactly the SentimentScore that strategy produced for the
   text and its embedding; the default engine is used only while no strategy
   was given. *)
C17_ScoreFromCurrentStrategy ==
    /\ [][\A k \in 1..Len(calls) :
            (calls[k].pc = "embed" /\ ProviderResolvesFor(k) /\ calls'[k].pc = "strategy") =>
                /\ calls'[k].strategy = currentStrategy
                /\ calls'[k].strategyCalls = 1]_vars
    /\ [][(currentStrategy \in Strategies) => (currentStrategy' \in Strategies)]_vars
    /\ [](\A k \in 1..Len(calls) :
            calls[k].pc = "vector" =>
                calls[k].score = [by |-> calls[k].strategy, text |-> calls[k].text,
                                  embedding |-> "emb:" \o calls[k].text])
    /\ []((finished.op = "analyze" /\ finished.kind = "resolved") =>
            /\ finished.strategyCalls = 1
            /\ finished.result.score = [by |-> finished.strategy, text |-> finished.text,
                                        embedding |-> "emb:" \o finished.text])

(* C17 witness: the second call, made after setStrategy(s2), returned the
   score s2 produced. *)
C17_Witness ==
    /\ finished.op = "analyze"
    /\ finished.kind = "resolved"
    /\ finished.id = 2
    /\ currentStrategy = "s2"
    /\ finished.strategy = "s2"
    /\ finished.result.score.by = "s2"

(* C18: initialize() is idempotent: called when the service is ready, it
   returns at once, calls the embedding provider not at all, and leaves the
   state of the service as it was. *)
C18_InitializeIdempotent ==
    [][(initialized /\ InitializeCall(started + 1, Len(calls) + 1)) =>
        /\ finished'.id = started + 1
        /\ finished'.op = "initialize"
        /\ finished'.kind = "resolved"
        /\ finished'.embedCalls = 0
        /\ calls' = calls
        /\ initialized'
        /\ sentimentAnchors' = sentimentAnchors
        /\ observers' = observers
        /\ currentStrategy' = currentStrategy
        /\ cacheRows' = cacheRows]_vars

(* C18 witness: the first initialize() made the service ready with the three
   anchor lists filled, and a second initialize() returned without calling
   the embedding provider. *)
C18_Witness ==
    /\ initialized
    /\ finished.id = 2
    /\ finished.op = "initialize"
    /\ finished.kind = "resolved"
    /\ finished.embedCalls = 0
    /\ \A c \in SeqRange(Categories) : sentimentAnchors[c] # <<>>
    /\ calls = <<>>

(* The last attempt of the recovery of initialize() awaits the last retry of
   an anchor word's embedding *)
C19_LastChance(k) ==
    /\ calls[k].op = "initialize"
    /\ calls[k].pc = "anchors"
    /\ calls[k].run = 3
    /\ calls[k].attempt = 5

(* C19: when anchor initialization fails and the recovery is exhausted,
   initialize() rejects with an InitializationError and the service stays
   uninitialized; initialize() rejects in no other way; and an initialize()
   called while uninitialized starts the anchor initialization again. *)
C19_ExhaustedInitRethrows ==
    /\ [][\A k \in 1..Len(calls) :
            (C19_LastChance(k) /\ ProviderRejectsFor(k, faults + 1)) =>
                /\ finished'.id = calls[k].id
                /\ finished'.kind = "rejected"
                /\ finished'.error = "InitializationError"
                /\ ~initialized'
                /\ Len(calls') = Len(calls) - 1]_vars
    /\ []((finished.op = "initialize" /\ finished.kind = "rejected") =>
            finished.error = "InitializationError")
    /\ [][(~initialized /\ InitializeCall(started + 1, Len(calls) + 1)) =>
            /\ Len(calls') = Len(calls) + 1
            /\ calls'[Len(calls')].id = started + 1
            /\ calls'[Len(calls')].pc = "anchors"
            /\ calls'[Len(calls')].embedCalls = 1]_vars

(* C19 witness: the first initialize() was rejected with InitializationError,
   the service is uninitialized, and a second initialize() is initializing
   the anchors. *)
C19_Witness ==
    /\ finished.id = 1
    /\ finished.op = "initialize"
    /\ finished.kind = "rejected"
    /\ finished.error = "InitializationError"
    /\ ~initialized
    /\ Len(calls) = 1
    /\ calls[1].id = 2
    /\ calls[1].pc = "anchors"

(* C20: the background cache write is scheduled, not awaited, and its failure
   never surfaces: the call returns its result in the step that schedules the
   write, before the write has run; and whether the write then stores the
   row, rejects or throws, the outcome the caller got is unchanged and no
   exception or rejection is left unhandled. *)
C20_CacheWriteNeverSurfaces ==
    /\ [][\A k \in 1..Len(calls) :
            (NotifyingStep(k) /\ observers = <<>>) =>
                /\ finished'.id = calls[k].id
                /\ finished'.kind = "resolved"
                /\ Len(immediates') = Len(immediates) + 1
                /\ immediates'[Len(immediates')].messageHash = "sha256:" \o calls[k].text
                /\ immediates'[Len(immediates')].sentiment = finished'.result.score
                /\ cacheRows' = cacheRows]_vars
    /\ [][RunImmediate =>
            /\ finished' = finished
            /\ calls' = calls
            /\ notified' = notified
            /\ ~uncaught'
            /\ bgLog' \in {bgLog, "debug: Background cache operation failed (expected)",
                            "debug: Error preparing cache data (expected)"}]_vars
    /\ [](~uncaught)

(* C20 witness: the call returned its result, and its cache write, run
   afterwards, rejected and was logged at debug level; no row was stored. *)
C20_Witness ==
    /\ finished.id = 1
    /\ finished.op = "analyze"
    /\ finished.kind = "resolved"
    /\ bgLog = "debug: Background cache operation failed (expected)"
    /\ immediates = <<>>
    /\ cacheRows = <<>>
    /\ ~uncaught

-----------------------------------------------------------------------------
(* The error a failing stage of analyzeSentiment ends with *)
StageError(pc) ==
    CASE pc = "anchors" -> "InitializationError"
      [] pc = "embed" -> "EmbeddingError"
      [] pc = "strategy" -> "StrategyError"
      [] pc = "vector" -> "VectorStoreError"

(* C21: analyzeSentiment either returns a complete result, the score of the
   strategy together with the context of the similar messages, or rejects
   with an AnalysisError whose cause is the failure that ended it, and then
   hands out no result at all; this holds when the embedding provider, the
   strategy or the vector store is the one that fails. *)
C21_CompleteOrTypedError ==
    [][\A k \in 1..Len(calls) :
        ( /\ calls[k].op = "analyze"
          /\ ProviderResolvesFor(k) \/ ProviderRejectsFor(k, MaxFailFaults)
          /\ Len(calls') < Len(calls) )
        => \/ /\ finished'.kind = "resolved"
              /\ ProviderResolvesFor(k)
              /\ finished'.result.score =
                    Score(calls[k].strategy, calls[k].text, Emb(calls[k].text))
              /\ finished'.result.context =
                    Context(Matches(Emb(calls[k].text)), finished'.result.score)
           \/ /\ finished'.kind = "rejected"
              /\ finished'.error = "AnalysisError"
              /\ finished'.result = NoResult
              /\ finished'.cause = IF ProviderResolvesFor(k) THEN "TypeError"
                                   ELSE StageError(calls[k].pc)]_vars

C21_Witness ==
    /\ finished.op = "analyze"
    /\ finished.kind = "rejected"
    /\ finished.cause = "VectorStoreError"
    /\ finished.vectorCalls = VectorMaxAttempts + 1
    /\ finished.embedCalls > 0
    /\ finished.strategyCalls = 1

-----------------------------------------------------------------------------
(* The number of events of one kind in the trace of the current recovery *)
CountEv(ev) ==
    Cardinality({i \in 1..Len(recovery.trace) : recovery.trace[i].ev = ev})

(* C22: attemptRecovery on an operation that fails maxAttempts - 1 times and
   then succeeds returns success = true with attempts = maxAttempts; on an
   operation that fails on every retry it returns success = false with the
   error of the final retry attached. *)
C22_RecoveryOutcome ==
    (recovery.pc = "done" /\ recovery.error.shouldRetry) =>
        /\ (CountEv("rejected") = recovery.error.maxAttempts - 1 /\ CountEv("resolved") = 1)
              => /\ recovery.result.success
                 /\ recovery.result.attempts = recovery.error.maxAttempts
        /\ CountEv("resolved") = 0
              => /\ ~recovery.result.success
                 /\ recovery.result.error = RetryError(CountEv("operation"))
                 /\ CountEv("operation") = recovery.error.maxAttempts

C22_Witness ==
    /\ recovery.pc = "done"
    /\ recovery.error.name = "EmbeddingError"
    /\ CountEv("rejected") = EmbeddingMaxAttempts - 1
    /\ recovery.result.success
    /\ recovery.result.attempts = EmbeddingMaxAttempts

(* The trace of a recovery: each invocation of the operation is the next in
   number and comes right after a sleep of backoffMs * 2^(k-1), there are at
   most maxAttempts invocations, and nothing follows a success *)
C23_TraceInOrder ==
    /\ \A i \in 1..Len(recovery.trace) :
          recovery.trace[i].ev = "operation" =>
              LET k == Cardinality({j \in 1..i : recovery.trace[j].ev = "operation"})
              IN  /\ recovery.trace[i].arg = k
                  /\ i > 1
                  /\ recovery.trace[i - 1] =
                        Event("sleep", recovery.error.backoffMs * Pow2(k - 1))
    /\ \A i \in 1..Len(recovery.trace) :
          recovery.trace[i].ev = "sleep" =>
              /\ i < Len(recovery.trace) => recovery.trace[i + 1].ev = "operation"
              /\ i = Len(recovery.trace) => recovery.pc = "sleep"
    /\ CountEv("operation") <= recovery.error.maxAttempts
    /\ \A i \in 1..Len(recovery.trace) :
          recovery.trace[i].ev = "resolved" => i = Len(recovery.trace)

(* C23: attemptRecovery sleeps backoffMs * 2^(k-1) immediately before the
   k-th retry, invokes the operation at most maxAttempts times, makes no
   further invocation after the first success, and, when every sleep ends
   and every operation call settles, always terminates with a result. *)
C23_BackoffBoundedTerminates ==
    /\ []C23_TraceInOrder
    /\ \A n \in 1..MaxRecoveries :
          (recovery.n = n /\ recovery.pc \in {"sleep", "operation"})
              ~> (recovery.n = n /\ recovery.pc = "done"
                  /\ recovery.result.status \in {"recovered", "max_attempts"})

C23_Witness ==
    /\ recovery.pc = "done"
    /\ recovery.error.name = "EmbeddingError"
    /\ CountEv("operation") = EmbeddingMaxAttempts
    /\ recovery.trace[Len(recovery.trace) - 2] =
          Event("sleep", 16 * EmbeddingBackoffMs)
    /\ ~recovery.result.success

-----------------------------------------------------------------------------
(* C24: cache round trip: after cacheSentiment has stored an entry for a
   message, getCachedSentiment of that message returns an entry with the
   sentiment and the confidence that were stored as long as the time is
   before expiresAt, and returns nothing once the time is past expiresAt. *)
C24_CacheRoundTrip ==
    [][\A m \in CacheMessages :
        (GetCachedSentimentOf(m) /\ RowsOf(cacheRows, m) # <<>>) =>
            LET row == RowsOf(cacheRows, m)[1]
            IN  /\ now < row.expiresAt.v =>
                      /\ lookup'.result # Null
                      /\ lookup'.result[1].sentiment = row.sentiment.v
                      /\ lookup'.result[1].confidence = row.confidence.v
                /\ now > row.expiresAt.v => lookup'.result = Null]_vars

(* C25: the cache holds at most one entry per message hash: after any
   sequence of cacheSentiment calls the table has one row for a cached text,
   identical text from another user or room leaves the row that is there,
   and what a lookup by the text returns is taken from that one row,
   whoever sent the text. *)
C25_OneEntryPerHash ==
    [][/\ \A m \in {lookup'.message}, data \in SeqRange(lookup'.data) :
            CacheSentimentOf(m, data) =>
                /\ Len(RowsOf(cacheRows', m)) = 1
                /\ RowsOf(cacheRows, m) # <<>> => cacheRows' = cacheRows
       /\ \A m \in CacheMessages :
            GetCachedSentimentOf(m) =>
                /\ Len(RowsOf(cacheRows, m)) <= 1
                /\ lookup'.result # Null =>
                      /\ lookup'.result[1].messageHash = hashMessage(m)
                      /\ lookup'.result[1].userId = RowsOf(cacheRows, m)[1].userId]_vars

C25_Witness ==
    /\ lookup.op = "cacheSentiment"
    /\ lookup.threw
    /\ Len(RowsOf(cacheRows, lookup.message)) = 1
    /\ RowsOf(cacheRows, lookup.message)[1].userId # lookup.data[1].userId
    /\ RowsOf(cacheRows, lookup.message)[1].roomId # lookup.data[1].roomId

-----------------------------------------------------------------------------
(* C26: in the recency cache of capacity N, inserting a new key while N keys
   are present evicts the key whose last access, by get or by set, is the
   oldest, even when another key was inserted earlier and read again
   later; every other key remains present. *)
C26_EvictsLeastRecentlyAccessed ==
    [][\A key \in LruKeys, value \in LruValues :
        ( /\ LruSetOf(key, value)
          /\ key \notin MapKeys(cache)
          /\ Len(cache) = LruCapacity )
        => MapKeys(cache') = (MapKeys(cache) \ {accessed[1]}) \cup {key}]_vars

-----------------------------------------------------------------------------
FiveCategories ==
    <<"strongly_bearish", "mildly_bearish", "neutral", "mildly_bullish", "strongly_bullish">>

Rank(category) == CHOOSE i \in 1..Len(FiveCategories) : FiveCategories[i] = category

(* The category of a score by the published thresholds, in thousandths *)
C27_Expected(score) ==
    CASE score <= -300 -> "strongly_bearish"
      [] score > -300 /\ score <= -150 -> "mildly_bearish"
      [] score > -150 /\ score <= 150 -> "neutral"
      [] score > 150 /\ score <= 300 -> "mildly_bullish"
      [] score > 300 -> "strongly_bullish"

(* C27: a score maps to strongly_bearish up to -0.3, mildly_bearish up to
   -0.15, neutral up to 0.15, mildly_bullish up to 0.3 and strongly_bullish
   above; the mapping is total and monotone in the score, and every result
   of the default strategy has the category of its own score. *)
C27_CategoryByThresholds ==
    fnOut # <<>> =>
        /\ fnIn.fn = "getCategory" =>
              /\ fnOut.a \in SeqRange(FiveCategories)
              /\ fnOut.a = C27_Expected(fnIn.a)
              /\ fnOut.b = C27_Expected(fnIn.b)
              /\ fnIn.a <= fnIn.b => Rank(fnOut.a) <= Rank(fnOut.b)
        /\ fnIn.fn = "analyze" => fnOut.category = C27_Expected(fnOut.score)

C27_Witness ==
    /\ fnOut # <<>>
    /\ fnIn.fn = "getCategory"
    /\ fnIn.a = -300
    /\ fnOut.a = "strongly_bearish"
    /\ fnIn.b = 151
    /\ fnOut.b = "mildly_bullish"

(* C28: every score the default engine produces has its confidence in
   [0, 1] and its score in [-1, 1], whatever the text. *)
C28_ScoreAndConfidenceInRange ==
    (fnOut # <<>> /\ fnIn.fn = "analyze") =>
        /\ 0 <= fnOut.confidence
        /\ fnOut.confidence <= One
        /\ -One <= fnOut.score
        /\ fnOut.score <= One

(* C29: for every sequence of similarity scores recentTrend is in [-1, 1]
   and volatility in [0, 1]; both are 0 for fewer than 2 scores, volatility
   is 0 for a constant sequence, and recentTrend is positive for a strictly
   increasing sequence. *)
C29_TrendAndVolatility ==
    (fnOut # <<>> /\ fnIn.fn = "context") =>
        LET scores == fnIn.scores
        IN  /\ -One <= fnOut.recentTrend /\ fnOut.recentTrend <= One
            /\ 0 <= fnOut.volatility /\ fnOut.volatility <= One
            /\ Len(scores) < 2 => fnOut.recentTrend = 0 /\ fnOut.volatility = 0
            /\ (\A i \in 1..Len(scores) : scores[i] = scores[1]) => fnOut.volatility = 0
            /\ (Len(scores) >= 2 /\ \A i \in 1..Len(scores) - 1 : scores[i] < scores[i + 1])
                  => fnOut.recentTrend > 0

C29_Witness ==
    /\ fnOut # <<>>
    /\ fnIn.fn = "context"
    /\ fnIn.scores = <<-3, 0, 4, 10>>
    /\ fnOut.recentTrend = One
    /\ fnOut.volatility > 0

(* How many of the matches carry the category *)
C30_Count(matches, category) ==
    Cardinality({i \in 1..Len(matches) : matches[i] = category})

(* C30: the dominant category is a category with the largest count among
   the matches that carry category metadata, and is the message's own
   category when no match carries any. *)
C30_DominantCategory ==
    (fnOut # <<>> /\ fnIn.fn = "getDominantCategory") =>
        LET carried == SeqRange(fnIn.matches) \ {Undefined}
        IN  IF carried = {} THEN fnOut.dominantCategory = fnIn.own
            ELSE /\ fnOut.dominantCategory \in carried
                 /\ \A c \in carried :
                       C30_Count(fnIn.matches, fnOut.dominantCategory)
                           >= C30_Count(fnIn.matches, c)

C30_Witness ==
    /\ fnOut # <<>>
    /\ fnIn.fn = "getDominantCategory"
    /\ fnIn.matches = <<"strongly_bullish", "neutral", "neutral">>
    /\ fnIn.own = "strongly_bearish"
    /\ fnOut.dominantCategory = "neutral"

-----------------------------------------------------------------------------
(* C31: when the first embedding call, or the first vector store query, of
   an analysis fails and a retry within the recovery budget succeeds, the
   value of the successful retry is what the analysis goes on with: the
   embedding handed to the strategy is the retry's embedding, and after a
   recovered query the analysis completes with a result. *)
C31_RecoveredRetryReturnsValue ==
    [][\A k \in 1..Len(calls) :
        ( /\ calls[k].op = "analyze"
          /\ calls[k].attempt > 0
          /\ ProviderResolvesFor(k) )
        => CASE calls[k].pc = "embed" ->
                    /\ Len(calls') = Len(calls)
                    /\ calls'[k].embedding = Emb(calls[k].text)
             [] calls[k].pc = "vector" ->
                    /\ finished'.id = calls[k].id
                    /\ finished'.kind = "resolved"
             [] OTHER -> TRUE]_vars

-----------------------------------------------------------------------------
(* C32: whenever a call of initialize() resolves, the service is ready,
   initialized is true, also when the first run of the anchor
   initialization failed and a run of the recovery succeeded. *)
C32_ResolvedInitializeIsReady ==
    [][( /\ finished' # finished
         /\ finished'.op = "initialize"
         /\ finished'.kind = "resolved" ) => initialized']_vars

-----------------------------------------------------------------------------
(* The activations that are inside initializeSentimentAnchors() *)
Initializing == {k \in 1..Len(calls) : calls[k].pc = "anchors"}

(* C33: while one anchor initialization is in progress, a concurrent
   initialize() or analyzeSentiment call does not start a second one: at any
   time at most one activation is inside the anchor initialization. *)
C33_OneInitializationAtATime == Cardinality(Initializing) <= 1

-----------------------------------------------------------------------------
(* The windows a suspended sweep has still to pass to the handler *)
Waiting(k) == {sweeps[k].ready[j] : j \in (sweeps[k].idx + 1)..Len(sweeps[k].ready)}

Dispatched == {handed[i].ref : i \in 1..Len(handed)}

(* C34: every window a sweep marks processing is passed to a handler: a
   window in status processing either has been handed to the handler or is
   still ahead in the loop of a running sweep, also when stopProcessing is
   called while the sweep awaits a handler. *)
C34_ProcessingIsDispatched ==
    \A ref \in DOMAIN windows :
        windows[ref].status = "processing" =>
            \/ ref \in Dispatched
            \/ \E k \in 1..Len(sweeps) : ref \in Waiting(k)

-----------------------------------------------------------------------------
(* C35: at most one handler invocation is pending at any time; every
   suspended sweep awaits the handler of one window, so at most one sweep is
   suspended, also when the timer fires again before a handler has
   finished. *)
C35_OneHandlerPending == Len(sweeps) <= 1

-----------------------------------------------------------------------------
(* C36: initialized = true implies that the anchor embeddings of all three
   categories are populated, after any sequence of initialize() and
   cleanup() calls that have returned, also after a cleanup() whose cache
   cleanup failed. *)
C36_ReadyHasAnchors ==
    (initialized /\ calls = <<>>) =>
        \A c \in SeqRange(Categories) : sentimentAnchors[c] # <<>>

-----------------------------------------------------------------------------
(* C37: in the recency cache, set(k, v) for a key that is present replaces
   its value and evicts no other key, also when the cache is at capacity;
   and the number of entries never exceeds the capacity. *)
C37_OverwriteEvictsNothing ==
    /\ [][\A key \in LruKeys, value \in LruValues :
            (LruSetOf(key, value) /\ key \in MapKeys(cache)) =>
                /\ MapKeys(cache') = MapKeys(cache)
                /\ MapGet(cache', key) = value]_vars
    /\ [](Len(cache) <= LruCapacity)

-----------------------------------------------------------------------------
(* C38: the attempt count in the metadata of attemptRecovery's result is the
   number of times the recovery invoked the operation, when it succeeded and
   when its attempts were exhausted, and it never exceeds maxAttempts. *)
C38_AttemptsAreInvocations ==
    (recovery.pc = "done" /\ recovery.error.shouldRetry) =>
        /\ recovery.result.attempts = CountEv("operation")
        /\ recovery.result.attempts <= recovery.error.maxAttempts

-----------------------------------------------------------------------------
(* The last reading of the clock of the loop scenarios *)
Horizon == WINDOW_SIZE_MS + PROCESSING_INTERVAL_MS

(* A collecting window with the minimum of messages, while the loop is
   running, whose end and whose next sweep the clock still reaches *)
AwaitsDispatch(ref) ==
    /\ ref \in DOMAIN windows
    /\ windows[ref].status = "collecting"
    /\ Len(windows[ref].messages) >= MIN_MESSAGES
    /\ windows[ref].endTime <= Horizon
    /\ processingInterval # 0
    /\ \E tm \in timers : tm.due <= Horizon

(* C39: while the processing loop is running and time advances, every
   collecting window that holds at least 2 messages is eventually passed to
   the handler, and every window whose handler invocation resolves is marked
   completed when it resolves. *)
C39_EveryWindowProcessed ==
    /\ \A ref \in 1..MaxLiveAdds : AwaitsDispatch(ref) ~> (ref \in Dispatched)
    /\ [][\A k \in 1..Len(sweeps) :
            HandlerResolveOf(k) => windows'[Pending(k)].status = "completed"]_vars

(* C39 witness: at the last reading of the clock two windows of one sweep
   have been passed to the handler, the second after the first resolved, and
   both are completed. *)
C39_Witness ==
    /\ now = Horizon
    /\ sweeps = <<>>
    /\ \E r1, r2 \in DOMAIN windows :
        /\ r1 # r2
        /\ {r1, r2} \subseteq Dispatched
        /\ windows[r1].status = "completed"
        /\ windows[r2].status = "completed"

-----------------------------------------------------------------------------
(* The id of the window of a chat whose bucket holds the time t *)
BucketOf(chatId, t) ==
    chatId \o "_" \o ToString((t \div WINDOW_SIZE_MS) * WINDOW_SIZE_MS)

(* C40: conversations are isolated: an addMessage for one chat creates no
   window of another chat, changes no window of another chat and leaves it
   in the map, and its message goes into a window of its own chat, which,
   unless it is an overflow window, is the window of the bucket of the
   arrival time. *)
C40_ChatsIsolated ==
    [][added' = added + 1 =>
        LET chatId == lastAdd'.chatId
            ret == lastAdd'.ret
        IN  /\ \A ref \in DOMAIN windows :
                    windows[ref].chatId # chatId =>
                        /\ windows'[ref] = windows[ref]
                        /\ ref \in Managed => ref \in MapRefs(activeWindows')
            /\ \A ref \in DOMAIN windows' \ DOMAIN windows :
                    windows'[ref].chatId = chatId
            /\ windows'[ret].chatId = chatId
            /\ windows'[ret].messages[Len(windows'[ret].messages)].messageId = added'
            /\ \/ windows'[ret].windowId = BucketOf(chatId, now)
               \/ windows'[ret].windowId = BucketOf(chatId, now) \o "_overflow"]_vars

(* C40 witness: a message of chat 7 went into the overflow window of the
   bucket whose id, 7_0, is the name of the other chat, which has a window
   with a message of its own. *)
C40_Witness ==
    /\ lastAdd.chatId = "7"
    /\ lastAdd.ret \in DOMAIN windows
    /\ windows[lastAdd.ret].windowId = OverflowId("7_0")
    /\ \E ref \in DOMAIN windows :
            /\ windows[ref].chatId = "7_0"
            /\ windows[ref].messages # <<>>

====
